---- MODULE Spec2Model ----
(***************************************************************************)
(* A model of the order-list proxy service (src/server.js): the decoding   *)
(* of the items field, the signature verifier, the guard of /proxy and the *)
(* handlers of its actions over the list store, with every await as one    *)
(* step so that concurrent requests interleave as they do on the server.   *)
(*                                                                         *)
(* Text is modelled as a sequence of one-character strings, so that trim   *)
(* and parseInt are computed character by character.                       *)
(***************************************************************************)
EXTENDS Integers, Sequences, FiniteSets, Bags, TLC

(***************************************************************************)
(* JavaScript values as they come out of JSON.parse.  t is the type tag.   *)
(* A number carries its decimal rendering (what ToString gives).  A plain  *)
(* object met where a scalar is expected carries whether its toString      *)
(* property can be called ({"toString":1} cannot).                         *)
(***************************************************************************)
Undef == [t |-> "undefined"]
Null == [t |-> "null"]
Bool(b) == [t |-> "boolean", b |-> b]
Num(chars) == [t |-> "number", chars |-> chars]
Str(chars) == [t |-> "string", chars |-> chars]
PlainObj(callable) == [t |-> "plainobj", callable |-> callable]
Entry(sku, quantity) == [t |-> "object", sku |-> sku, quantity |-> quantity]
Arr(elems) == [t |-> "array", elems |-> elems]

\* the items form field: absent, text JSON.parse rejects, or text that
\* decodes to a value
ItemsAbsent == [k |-> "absent"]
ItemsMalformed == [k |-> "malformed"]
ItemsJson(v) == [k |-> "json", v |-> v]

Digits == {"0", "1", "2", "3", "4", "5", "6", "7", "8", "9"}
DigitVal(c) ==
    CASE c = "0" -> 0 [] c = "1" -> 1 [] c = "2" -> 2 [] c = "3" -> 3
      [] c = "4" -> 4 [] c = "5" -> 5 [] c = "6" -> 6 [] c = "7" -> 7
      [] c = "8" -> 8 [] c = "9" -> 9

\* the characters String.prototype.trim and parseInt strip (WhiteSpace and
\* LineTerminator): space, tab, line feed, carriage return, form feed, and
\* then U+000B, U+00A0, U+1680 and U+FEFF.  The code points from U+2000 on
\* (U+2000 to U+200A, U+2028, U+2029, U+202F, U+205F, U+3000) cannot be
\* written in a string of this module and are no characters of the model
WhiteSpace == {" ", "\t", "\n", "\r", "\f", "", " ", " ", "﻿"}

IsSpace(c) == c \in WhiteSpace

RECURSIVE TrimStart(_)
TrimStart(s) ==
    IF s # <<>> /\ IsSpace(Head(s)) THEN TrimStart(Tail(s)) ELSE s

RECURSIVE TrimEnd(_)
TrimEnd(s) ==
    IF s # <<>> /\ IsSpace(s[Len(s)]) THEN TrimEnd(SubSeq(s, 1, Len(s) - 1)) ELSE s

\* String.prototype.trim
Trim(s) == TrimEnd(TrimStart(s))

RECURSIVE Text(_)
\* the characters of a text as one string, halves first so that a long
\* text is made in few levels
Text(chars) ==
    IF chars = <<>> THEN ""
    ELSE IF Len(chars) = 1 THEN chars[1]
    ELSE LET h == Len(chars) \div 2
         IN  Text(SubSeq(chars, 1, h)) \o Text(SubSeq(chars, h + 1, Len(chars)))

(***************************************************************************)
(* Whole numbers of JavaScript.  A Number is a double: parseInt gives the  *)
(* double nearest to the digits it reads, which is the number itself up to *)
(* 2^53 and Infinity from 2^1024 on.  The model writes a whole number as   *)
(* its sign and the decimal digits of its magnitude, with no leading zero, *)
(* so that no width of the model's integers limits it.                     *)
(***************************************************************************)
NaN == [nan |-> TRUE, inf |-> FALSE, neg |-> FALSE, digits |-> <<>>]
Infinity(neg) == [nan |-> FALSE, inf |-> TRUE, neg |-> neg, digits |-> <<>>]
Whole(neg, digits) == [nan |-> FALSE, inf |-> FALSE, neg |-> neg, digits |-> digits]

DigitChars == <<"0", "1", "2", "3", "4", "5", "6", "7", "8", "9">>
DigitChar(n) == DigitChars[n + 1]

\* the digits d without their leading zeros; zero is one digit
Canonical(d) ==
    LET nz == {i \in DOMAIN d : d[i] # "0"}
    IN  IF nz = {} THEN <<"0">>
        ELSE SubSeq(d, CHOOSE i \in nz : \A j \in nz : i <= j, Len(d))

\* the longest prefix of s made of decimal digits
DigitPrefix(s) ==
    LET other == {i \in DOMAIN s : s[i] \notin Digits}
    IN  IF other = {} THEN s
        ELSE SubSeq(s, 1, (CHOOSE i \in other : \A j \in other : i <= j) - 1)

\* a <= b, for canonical digits
DigitsLeq(a, b) ==
    \/ Len(a) < Len(b)
    \/ /\ Len(a) = Len(b)
       /\ \/ a = b
          \/ \E i \in DOMAIN a : /\ DigitVal(a[i]) < DigitVal(b[i])
                                 /\ \A j \in 1..(i - 1) : a[j] = b[j]

IsOdd(d) == DigitVal(d[Len(d)]) % 2 = 1

\* floor(d / 2): each digit with the remainder of the digit before it
Half(d) ==
    Canonical([i \in DOMAIN d |->
        DigitChar(((IF i > 1 THEN DigitVal(d[i - 1]) % 2 ELSE 0) * 10
                     + DigitVal(d[i])) \div 2)])

\* 2 * d: each digit doubled, with the carry of the digit after it
Twice(d) ==
    LET carry(i) == IF i <= Len(d) /\ DigitVal(d[i]) >= 5 THEN 1 ELSE 0
        low == [i \in DOMAIN d |-> DigitChar(((2 * DigitVal(d[i])) % 10) + carry(i + 1))]
    IN  IF carry(1) = 1 THEN <<"1">> \o low ELSE SubSeq(low, 1, Len(d))

\* d + 1
Succ(d) ==
    LET lower == {i \in DOMAIN d : d[i] # "9"}
    IN  IF lower = {} THEN <<"1">> \o [i \in DOMAIN d |-> "0"]
        ELSE LET at == CHOOSE i \in lower : \A j \in lower : j <= i
             IN  SubSeq([i \in DOMAIN d |->
                            IF i < at THEN d[i]
                            ELSE IF i = at THEN DigitChar(DigitVal(d[i]) + 1) ELSE "0"],
                        1, Len(d))

RECURSIVE Small(_)
\* the value of a few digits, as an integer of the model
Small(d) == IF d = <<>> THEN 0 ELSE 10 * Small(SubSeq(d, 1, Len(d) - 1)) + DigitVal(d[Len(d)])

\* one byte is 8 bits; the remainder of a number by 2^8 is that of its last
\* 8 digits, because 10^8 is a multiple of 2^8
Byte == 256
ByteBits == 8
\* from this many digits on a number is at least 2^63, and 8 bits can be
\* shifted out of it at once
ManyDigits == 20

LowByte(d) ==
    (Small(SubSeq(d, IF Len(d) > ByteBits THEN Len(d) - ByteBits + 1 ELSE 1, Len(d))))
        % Byte

\* floor(d / 2^8): long division, the remainder before each digit computed
\* from the 8 digits before it
ShiftByte(d) ==
    Canonical([i \in DOMAIN d |->
        LET before == SubSeq(d, IF i > ByteBits THEN i - ByteBits ELSE 1, i - 1)
        IN  DigitChar((((Small(before) % Byte) * 10 + DigitVal(d[i])) \div Byte) % 10)])

\* the largest significand of a double, 2^53 - 1, and 2^53
MaxSignificand ==
    <<"9", "0", "0", "7", "1", "9", "9", "2", "5", "4", "7", "4", "0", "9", "9", "1">>
TwoTo53 == Succ(MaxSignificand)
\* the exponent of the largest doubles: a significand of 53 bits times 2^971
MaxShift == 971
\* a number of more digits than this is above every double
MaxDigits == 309

RECURSIVE Significand(_, _, _, _)
\* d shifted right until it fits 53 bits: k counts the bits shifted out,
\* half is the last of them and below is whether any before it was set;
\* then rounded to nearest, ties to even
Significand(d, k, half, below) ==
    IF k >= 0 /\ {half, below} \subseteq BOOLEAN /\ DigitsLeq(d, MaxSignificand)
    THEN [m |-> IF half /\ (below \/ IsOdd(d)) THEN Succ(d) ELSE d, k |-> k]
    ELSE IF Len(d) >= ManyDigits
    THEN Significand(ShiftByte(d), k + ByteBits, LowByte(d) >= Byte \div 2,
                     below \/ half \/ (LowByte(d) % (Byte \div 2)) # 0)
    ELSE Significand(Half(d), k + 1, IsOdd(d), below \/ half)

RECURSIVE Scale(_, _)
\* d * 2^k, for d that is not zero
Scale(d, k) ==
    IF k = 0 \/ d = <<"0">> THEN d
    ELSE IF k >= ByteBits
    THEN Scale(Twice(Twice(Twice(Twice(Twice(Twice(Twice(Twice(d)))))))), k - ByteBits)
    ELSE Scale(Twice(d), k - 1)

\* the double nearest to the whole number of digits d and sign neg
ToDouble(neg, d) ==
    IF Len(d) > MaxDigits THEN Infinity(neg)
    ELSE LET s == Significand(d, 0, FALSE, FALSE)
         IN  IF s.k > MaxShift \/ (s.k = MaxShift /\ s.m = TwoTo53) THEN Infinity(neg)
             ELSE Whole(neg, Scale(s.m, s.k))

\* Number.parseInt(string, 10): leading white space is skipped, one sign is
\* read, then the longest run of digits; no digit gives NaN
ParseIntStr(s) ==
    LET t == TrimStart(s)
        neg == t # <<>> /\ Head(t) = "-"
        u == IF t # <<>> /\ Head(t) \in {"-", "+"} THEN Tail(t) ELSE t
    IN  IF DigitPrefix(u) = <<>> THEN NaN
        ELSE ToDouble(neg, Canonical(DigitPrefix(u)))

\* Number.isFinite(q)
isFinite(q) == ~q.nan /\ ~q.inf

\* q > 0
Positive(q) == ~q.nan /\ ~q.neg /\ (q.inf \/ q.digits # <<"0">>)

\* a number as text: its sign and the decimal digits of its magnitude
Decimal(q) ==
    IF q.nan THEN <<"N", "a", "N">>
    ELSE (IF q.neg /\ (q.inf \/ q.digits # <<"0">>) THEN <<"-">> ELSE <<>>)
         \o (IF q.inf THEN <<"I", "n", "f", "i", "n", "i", "t", "y">> ELSE q.digits)

Throws == [throws |-> TRUE]
Returns(v) == [throws |-> FALSE, v |-> v]

\* Object.prototype.toString of a plain object
ObjectObject ==
    <<"[", "o", "b", "j", "e", "c", "t", " ", "O", "b", "j", "e", "c", "t", "]">>

RECURSIVE ToStr(_)
RECURSIVE ArrayText(_)
\* Array.prototype.join(","): undefined and null give the empty text, every
\* other element its text
ArrayText(elems) ==
    IF elems = <<>> THEN Returns(<<>>)
    ELSE LET first == IF Head(elems).t \in {"undefined", "null"} THEN Returns(<<>>)
                      ELSE ToStr(Head(elems))
             rest == ArrayText(Tail(elems))
         IN  IF first.throws \/ rest.throws THEN Throws
             ELSE IF Tail(elems) = <<>> THEN first
             ELSE Returns(first.v \o <<",">> \o rest.v)

\* value.toString() of a value that is not undefined or null; the toString
\* of an array joins its elements
ToStr(v) ==
    CASE v.t = "string" -> Returns(v.chars)
      [] v.t = "number" -> Returns(v.chars)
      [] v.t = "boolean" ->
            Returns(IF v.b THEN <<"t", "r", "u", "e">> ELSE <<"f", "a", "l", "s", "e">>)
      [] v.t = "plainobj" -> IF v.callable THEN Returns(ObjectObject) ELSE Throws
      [] v.t = "array" -> ArrayText(v.elems)
      [] OTHER -> Returns(ObjectObject)

\* JavaScript truthiness
Truthy(v) ==
    CASE v.t \in {"undefined", "null"} -> FALSE
      [] v.t = "boolean" -> v.b
      [] v.t = "string" -> v.chars # <<>>
      [] v.t = "number" -> v.chars \notin {<<"0">>, <<"-", "0">>}
      [] OTHER -> TRUE

\* x?.sku and x?.quantity: undefined unless x is an object with the field
Field(x, name) ==
    IF x.t = "object" THEN (IF name = "sku" THEN x.sku ELSE x.quantity) ELSE Undef

\* (x?.sku || "").toString().trim()
SkuOf(x) ==
    LET raw == Field(x, "sku")
        s == IF Truthy(raw) THEN ToStr(raw) ELSE Returns(<<>>)
    IN  IF s.throws THEN Throws ELSE Returns(Trim(s.v))

\* Number.parseInt(x?.quantity ?? 1, 10)
QuantityOf(x) ==
    LET raw == Field(x, "quantity")
        q == IF raw.t \in {"undefined", "null"} THEN Num(<<"1">>) ELSE raw
        s == ToStr(q)
    IN  IF s.throws THEN Throws ELSE Returns(ParseIntStr(s.v))

\* a bug: the filter does not look at the sign of the quantity
KeepItemAnyQuantity(sku, quantity) == sku # <<>> /\ isFinite(quantity)

\* the filter of safeParseItems: x.sku && Number.isFinite(x.quantity) &&
\* x.quantity > 0
KeepItem(sku, quantity) == sku # <<>> /\ isFinite(quantity) /\ Positive(quantity)

RECURSIVE MapFilter(_)
\* arr.map(...).filter(...).map(...): the kept entries in order, or Throws
\* when the conversion of some entry throws.  The quantity of an entry is a
\* Number, written as its decimal text
MapFilter(elems) ==
    IF elems = <<>> THEN Returns(<<>>)
    ELSE LET sku == SkuOf(Head(elems))
             qty == QuantityOf(Head(elems))
             rest == MapFilter(Tail(elems))
         IN  IF sku.throws \/ qty.throws \/ rest.throws THEN Throws
             ELSE IF KeepItem(sku.v, qty.v)
                  THEN Returns(<<[sku |-> sku.v, quantity |-> Decimal(qty.v)]>> \o rest.v)
                  ELSE rest

safeParseItems(itemsStr) ==
    IF itemsStr.k = "absent" THEN <<>>
    ELSE IF itemsStr.k = "malformed" THEN <<>>
    ELSE IF itemsStr.v.t # "array" THEN <<>>
    ELSE LET r == MapFilter(itemsStr.v.elems)
         IN  IF r.throws THEN <<>> ELSE r.v

(***************************************************************************)
(* The store and the requests.                                             *)
(***************************************************************************)
\* the number of requests of a run; each has its own handler, and they may
\* all be in progress at the same time
MaxReq == 2
Slots == 1..MaxReq

\* the digits of a customer id that is above every BIGINT
WideLen == 20

\* customer ids, as normalizeCustomerId returns them: texts of digits.  The
\* second is another text for the number of the first, the last is a number
\* the column customer_id cannot hold
Customers ==
    {<<"4", "1">>, <<"0", "4", "1">>, <<"4", "2">>, [i \in 1..WideLen |-> "9"]}

\* the largest BIGINT, 2^63 - 1
MaxBigint ==
    <<"9", "2", "2", "3", "3", "7", "2", "0", "3", "6", "8", "5", "4", "7", "7", "5",
      "8", "0", "7">>

\* a text of digits as a parameter for the BIGINT column customer_id: the
\* store reads it as a number, written here as its digits with no leading
\* zero, and a statement with a number above the largest BIGINT fails
Bigint(text) == Canonical(text)
InBigint(text) == DigitsLeq(Canonical(text), MaxBigint)

\* the largest INT, 2^31 - 1
MaxInt4 == <<"2", "1", "4", "7", "4", "8", "3", "6", "4", "7">>

\* a Number as a parameter for the INT column quantity
InInt4(decimal) == decimal \in Seq(Digits) /\ DigitsLeq(decimal, MaxInt4)
Int4(decimal) == Small(decimal)

RECURSIVE NumberOf(_)
\* the Number of an INT that is not negative
NumberOf(n) ==
    IF n < 10 THEN <<DigitChar(n)>> ELSE NumberOf(n \div 10) \o <<DigitChar(n % 10)>>

\* the outcomes of a statement with the customer id as a parameter: it may
\* fail, and it fails when the id is no BIGINT
Failing(customerId) == IF InBigint(customerId) THEN BOOLEAN ELSE {TRUE}

\* the outcomes of the item INSERT: it fails when a quantity is no INT
FailingItems(entries) ==
    IF \A k \in DOMAIN entries : InInt4(entries[k].quantity) THEN BOOLEAN ELSE {TRUE}

\* list_id values: none, the id of a list a client has been told of, or a
\* well-formed id the database never generates (ids are generated from
\* FirstId + 1 upwards, at most one for each request)
NoId == 0

\* two items form fields that decode to one item and to two equal items
ItemsA == ItemsJson(Arr(<<Entry(Str(<<" ", "A">>), Num(<<"2">>))>>))
ItemsBB ==
    ItemsJson(Arr(<<Entry(Str(<<"B">>), Undef),
                    Entry(Str(<<" ">>), Num(<<"1">>)),
                    Entry(Str(<<"B">>), Str(<<"1", "x">>))>>))

\* an items form field with a quantity of 2^31, one more than the column
\* quantity can hold
ItemsWide ==
    ItemsJson(Arr(<<Entry(Str(<<"W">>),
                          Str(<<"2", "1", "4", "7", "4", "8", "3", "6", "4", "8">>))>>))

\* the name and items form fields of an upsert
Payloads ==
    { [name |-> <<"a">>, items |-> ItemsA],
      [name |-> <<"a">>, items |-> ItemsWide],
      [name |-> <<" ", "b", " ">>, items |-> ItemsBB],
      [name |-> <<" ">>, items |-> ItemsA],
      [name |-> <<"a">>, items |-> ItemsAbsent],
      [name |-> <<>>, items |-> ItemsMalformed] }

\* the list the store holds when the service starts
FirstList == [id |-> 1, customer_id |-> <<"4", "1">>, name |-> <<"a">>, updated_at |-> 0]
FirstId == FirstList.id
FirstItems ==
    {[list_id |-> FirstId, sku |-> <<"A">>, quantity |-> 2, created_at |-> 0, n |-> 1]}
GhostId == FirstId + MaxReq + 1

VARIABLES
    lists,       \* committed rows of table lists
    items,       \* committed rows of table list_items
    now,         \* the number of transactions begun: NOW() of the latest
    nextListId,  \* the next id gen_random_uuid() gives a list row
    pc,          \* pc[s]: where handler s is
    req,         \* req[s]: the request handler s serves
    loc,         \* loc[s]: the local variables and open transaction of s
    resp,        \* resp[s]: the response handler s has sent
    secret,      \* SHOPIFY_APP_SECRET, "" when the environment has none
    admin,       \* SHOPIFY_STORE_DOMAIN and SHOPIFY_ADMIN_ACCESS_TOKEN are both set
    http,        \* http[s]: what verifyAppProxy and the guard read of request s
    client,      \* client[s]: the pool connection of handler s
    calls        \* calls[s]: the calls of shopifyGql and of fetch that have
                 \* settled for handler s, each with what it gave

vars ==
    <<lists, items, now, nextListId, pc, req, loc, resp, secret, admin, http, client,
      calls>>

\* the fields of a request that the handlers read
NoReq == [action |-> "none", customer_id |-> <<>>, list_id |-> NoId,
          name |-> <<>>, items |-> ItemsAbsent, note |-> <<>>,
          cart_items |-> ItemsAbsent, customer_email |-> <<>>,
          company_name |-> <<>>, location_name |-> <<>>, rep_email |-> <<>>,
          shipping_address_json |-> ItemsAbsent,
          file |-> [given |-> FALSE, originalname |-> "", mimetype |-> ""]]

\* the secret of the deployment, and no secret
AppSecret == <<"k">>
NoSecret == <<>>

\* no request: no method, no query parameters, no customer_id in the body
NoHttp == [method |-> "", query |-> <<>>, body |-> Undef]

\* name, items: the validated input; listId: the resolved list; ts: NOW() of
\* the transaction; wrote: the list statement that took effect; del: the item
\* rows the DELETE removed; ins: whether the item INSERT ran; row: the list
\* row a get has read; seen: the states committed for the list of a get
\* from when it read the row; failed: a store call of the handler threw;
\* threw: the statement of the transaction whose exception the catch block
\* of the upsert holds as e
NoLoc == [name |-> <<>>, items |-> <<>>, listId |-> NoId, ts |-> 0,
          wrote |-> "none", del |-> {}, ins |-> FALSE, row |-> {}, seen |-> {},
          failed |-> FALSE, threw |-> "none"]

NoResp == [status |-> 0]

\* no connection: pool.connect() has given none, no BEGIN was sent, none
\* was released
NoClient == [acquired |-> 0, begun |-> 0, released |-> 0]

\* json(res, status, obj)
json(status, obj) == [status |-> status, body |-> obj]

\* a bug: ok is true in the body of a failure too
FailAsOk(error) == [ok |-> TRUE, error |-> error]

\* { ok: false, error }
Fail(error) == [ok |-> FALSE, error |-> error]

\* a bug: the customer is left out of the WHERE clause
OwnedByIdOnly(row, listId, customerId) == row.id = listId

\* WHERE id = $1 AND customer_id = $2, the column a BIGINT
OwnedBy(row, listId, customerId) ==
    row.id = listId /\ row.customer_id = Bigint(customerId)

\* SELECT ... FROM lists WHERE id = $1 AND customer_id = $2 LIMIT 1
SelectList(ls, listId, customerId) == {r \in ls : OwnedBy(r, listId, customerId)}

\* the rows of list_items with list_id = $1
ItemsOf(its, listId) == {i \in its : i.list_id = listId}

\* created_at then position in the INSERT: the rows one statement inserts
\* share created_at and come back in the order they were inserted
Before(i, j) == i.created_at < j.created_at \/ (i.created_at = j.created_at /\ i.n < j.n)

RECURSIVE Ordered(_)
Ordered(rows) ==
    IF rows = {} THEN <<>>
    ELSE LET first == CHOOSE i \in rows : \A j \in rows \ {i} : Before(i, j)
         IN  <<first>> \o Ordered(rows \ {first})

\* a bug: SELECT sku, quantity FROM list_items, with no WHERE clause
SelectItemsOfAnyList(its, listId) ==
    LET rows == Ordered(its)
    IN  [k \in 1..Len(rows) |->
            [sku |-> rows[k].sku, quantity |-> NumberOf(rows[k].quantity)]]

\* SELECT sku, quantity FROM list_items WHERE list_id = $1 ORDER BY created_at ASC,
\* mapped to { sku, quantity: Number(quantity || 1) }
SelectItems(its, listId) ==
    LET rows == Ordered(ItemsOf(its, listId))
    IN  [k \in 1..Len(rows) |->
            [sku |-> rows[k].sku,
             quantity |-> NumberOf(IF rows[k].quantity = 0 THEN 1 ELSE rows[k].quantity)]]

\* a committed state of a list, for seen: its name with its items, or deleted
Pair(name, its) == [name |-> name, items |-> its, gone |-> FALSE]
Gone == [name |-> <<>>, items |-> <<>>, gone |-> TRUE]

\* the transaction of handler t holds the row lock of list listId: its UPDATE
\* matched the row and it has neither committed nor rolled back.  A handler
\* whose call never settles after that UPDATE has sent neither COMMIT nor
\* ROLLBACK and has not released its client: its transaction stays open
HoldsLock(t, listId) ==
    /\ pc[t] \in {"items_delete", "items_insert", "commit", "rollback", "stalled"}
    /\ loc[t].wrote = "update"
    /\ loc[t].listId = listId

\* a bug: the UPDATE takes no row lock
NeverWait(s, listId) == FALSE

\* a statement of handler s that writes the row of list listId waits while
\* another transaction holds its row lock
MustWait(s, listId) == \E t \in Slots \ {s} : HoldsLock(t, listId)

\* the list ids a client can name: the id of the first list, the ids that
\* upserts have returned, and an id no list has
NameableIds ==
    {FirstId, GhostId} \cup
    {resp[k].body.list_id :
        k \in {j \in Slots : req[j].action = "upsert" /\ resp[j].status = 200}}

Init ==
    /\ lists = {FirstList}
    /\ items = FirstItems
    /\ now = 0
    /\ nextListId = FirstId + 1
    /\ pc = [s \in Slots |-> "idle"]
    /\ req = [s \in Slots |-> NoReq]
    /\ loc = [s \in Slots |-> NoLoc]
    /\ resp = [s \in Slots |-> NoResp]
    /\ secret = AppSecret
    /\ admin = TRUE
    /\ http = [s \in Slots |-> NoHttp]
    /\ client = [s \in Slots |-> NoClient]
    /\ calls = [s \in Slots |-> <<>>]

\* requests arrive in the order of their handlers
Free(s) == pc[s] = "idle" /\ \A k \in 1..(s - 1) : pc[k] # "idle"

\* what is left of the local variables of a handler that has ended
Ended(l) == [NoLoc EXCEPT !.ts = l.ts, !.listId = l.listId, !.wrote = l.wrote,
                          !.seen = l.seen, !.failed = l.failed]

\* the handler answers and ends; locs is loc after its last statement
Finish(s, r, locs) ==
    /\ pc' = [pc EXCEPT ![s] = "done"]
    /\ resp' = [resp EXCEPT ![s] = r]
    /\ loc' = [locs EXCEPT ![s] = Ended(locs[s])]

Respond(s, r) == Finish(s, r, loc)

\* a store call throws outside the transaction: the outer catch block answers
Thrown(s) ==
    Finish(s, json(500, Fail("Server error")), [loc EXCEPT ![s].failed = TRUE])

\* the handler suspends at its next await
Goto(s, label) ==
    /\ pc' = [pc EXCEPT ![s] = label]
    /\ resp' = [resp EXCEPT ![s] = NoResp]

\* a request arrives: { action, customer_id, list_id } in the query or body
Arrive(s, action, c, l, name, its) ==
    /\ Free(s)
    /\ req' = [req EXCEPT ![s] = [NoReq EXCEPT !.action = action, !.customer_id = c,
                                               !.list_id = l, !.name = name,
                                               !.items = its]]

\* a bug: the query has no WHERE clause
ListRowsOfAnyCustomer(ls, its, customerId) ==
    {[id |-> r.id, name |-> r.name, updated_at |-> r.updated_at,
      item_count |-> Cardinality(ItemsOf(its, r.id))] : r \in ls}

\* SELECT l.id, l.name, updated_at, (SELECT COUNT(*) ...) AS item_count FROM lists l
\* WHERE l.customer_id = $1: the rows, each with the count of its items
ListRows(ls, its, customerId) ==
    {[id |-> r.id, name |-> r.name, updated_at |-> r.updated_at,
      item_count |-> Cardinality(ItemsOf(its, r.id))] :
        r \in {x \in ls : x.customer_id = Bigint(customerId)}}

RECURSIVE LatestFirst(_)
\* ORDER BY l.updated_at DESC; rows of one updated_at come in any order
LatestFirst(rows) ==
    IF rows = {} THEN <<>>
    ELSE LET first == CHOOSE r \in rows : \A x \in rows : x.updated_at <= r.updated_at
         IN  <<first>> \o LatestFirst(rows \ {first})

\* listsRes.rows.map(...): items is empty, item_count a number
ListBody(rows) ==
    [ok |-> TRUE,
     lists |-> [k \in 1..Len(rows) |->
                  [id |-> rows[k].id, name |-> rows[k].name,
                   updated_at |-> rows[k].updated_at, items |-> <<>>,
                   item_count |-> rows[k].item_count]]]

\* case "list", to its query
ReceiveList(s) ==
    \E c \in Customers :
        /\ Arrive(s, "list", c, NoId, <<>>, ItemsAbsent)
        /\ Goto(s, "list") /\ loc' = [loc EXCEPT ![s] = NoLoc]
        /\ UNCHANGED <<lists, items, now, nextListId>>

\* case "list": the query and the answer
ListLists(s) ==
    /\ pc[s] = "list"
    /\ \E fail \in Failing(req[s].customer_id) :
        IF fail THEN Thrown(s)
        ELSE Respond(s, json(200, ListBody(LatestFirst(
                                     ListRows(lists, items, req[s].customer_id)))))
    /\ UNCHANGED <<lists, items, now, nextListId, req, secret, admin, http, client, calls>>

\* case "get", to its first query
ReceiveGet(s) ==
    \E c \in Customers, l \in NameableIds \cup {NoId} :
        /\ Arrive(s, "get", c, l, <<>>, ItemsAbsent)
        /\ IF l = NoId
           THEN Finish(s, json(400, Fail("Missing list_id")), [loc EXCEPT ![s] = NoLoc])
           ELSE Goto(s, "get_list") /\ loc' = [loc EXCEPT ![s] = NoLoc]
        /\ UNCHANGED <<lists, items, now, nextListId>>

\* case "get": the list query, and the answer when it finds no row
GetList(s) ==
    /\ pc[s] = "get_list"
    /\ \E fail \in Failing(req[s].customer_id) :
        LET rows == SelectList(lists, req[s].list_id, req[s].customer_id)
        IN  IF fail THEN Thrown(s)
            ELSE IF rows = {}
                 THEN Respond(s, json(404, Fail("List not found")))
                 ELSE /\ Goto(s, "get_items")
                      /\ loc' = [loc EXCEPT ![s].row = rows,
                                            ![s].seen =
                                                {Pair(r.name, SelectItems(items, r.id)) :
                                                    r \in rows}]
    /\ UNCHANGED <<lists, items, now, nextListId, req, secret, admin, http, client, calls>>

\* the body of the answer of get: the row listRes found and the rows of itemsRes
GetBody(row, itemRows) ==
    [ok |-> TRUE,
     list |-> [id |-> row.id, name |-> row.name, updated_at |-> row.updated_at,
               items |-> itemRows]]

\* case "get": the item query and the answer
GetItems(s) ==
    /\ pc[s] = "get_items"
    /\ \E fail \in BOOLEAN :
        LET row == CHOOSE r \in loc[s].row : TRUE
        IN  IF fail THEN Thrown(s)
            ELSE Respond(s, json(200, GetBody(row, SelectItems(items, req[s].list_id))))
    /\ UNCHANGED <<lists, items, now, nextListId, req, secret, admin, http, client, calls>>

\* case "orderify", to its first query
ReceiveOrderify(s) ==
    \E c \in Customers, l \in NameableIds \cup {NoId} :
        /\ Arrive(s, "orderify", c, l, <<>>, ItemsAbsent)
        /\ IF l = NoId
           THEN Finish(s, json(400, Fail("Missing list_id")), [loc EXCEPT ![s] = NoLoc])
           ELSE Goto(s, "orderify_list") /\ loc' = [loc EXCEPT ![s] = NoLoc]
        /\ UNCHANGED <<lists, items, now, nextListId>>

\* case "orderify": the ownership query, and the answer when it finds no row
OrderifyList(s) ==
    /\ pc[s] = "orderify_list"
    /\ \E fail \in Failing(req[s].customer_id) :
        IF fail THEN Thrown(s)
        ELSE IF SelectList(lists, req[s].list_id, req[s].customer_id) = {}
             THEN Respond(s, json(404, Fail("List not found")))
             ELSE /\ Goto(s, "orderify_items")
                  /\ loc' = [loc EXCEPT ![s].seen =
                               {Pair(r.name, SelectItems(items, r.id)) :
                                   r \in SelectList(lists, req[s].list_id,
                                                    req[s].customer_id)}]
    /\ UNCHANGED <<lists, items, now, nextListId, req, secret, admin, http, client, calls>>

\* the body of the answer of orderify: the rows of itemsRes
OrderifyBody(itemRows) == [ok |-> TRUE, items |-> itemRows]

\* case "orderify": the item query and the answer
OrderifyItems(s) ==
    /\ pc[s] = "orderify_items"
    /\ \E fail \in BOOLEAN :
        IF fail THEN Thrown(s)
        ELSE Respond(s, json(200, OrderifyBody(SelectItems(items, req[s].list_id))))
    /\ UNCHANGED <<lists, items, now, nextListId, req, secret, admin, http, client, calls>>

\* a get or an orderify that has read the row of list listId and not yet its
\* items also records what a later write gives the list
Observe(k, listId, pair) ==
    [s \in Slots |->
        IF s # k /\ pc[s] \in {"get_items", "orderify_items"} /\ req[s].list_id = listId
        THEN [loc[s] EXCEPT !.seen = @ \cup pair]
        ELSE loc[s]]

\* case "delete", to its query
ReceiveDelete(s) ==
    \E c \in Customers, l \in NameableIds \cup {NoId} :
        /\ Arrive(s, "delete", c, l, <<>>, ItemsAbsent)
        /\ IF l = NoId
           THEN Finish(s, json(400, Fail("Missing list_id")), [loc EXCEPT ![s] = NoLoc])
           ELSE Goto(s, "delete") /\ loc' = [loc EXCEPT ![s] = NoLoc]
        /\ UNCHANGED <<lists, items, now, nextListId>>

\* a bug: DELETE FROM lists WHERE id = $1
DeleteFromAnyCustomer(ls, its, listId, customerId) ==
    LET rows == {r \in ls : r.id = listId}
    IN  <<ls \ rows, {i \in its : \A r \in rows : i.list_id # r.id}, rows>>

\* a bug: the statement returns the row it matches and deletes nothing
DeleteFromNothing(ls, its, listId, customerId) ==
    <<ls, its, SelectList(ls, listId, customerId)>>

\* a bug: list_items has no ON DELETE CASCADE
DeleteFromNoCascade(ls, its, listId, customerId) ==
    <<ls \ SelectList(ls, listId, customerId), its, SelectList(ls, listId, customerId)>>

\* a bug: DELETE FROM lists WHERE customer_id = $2
DeleteFromWholeCustomer(ls, its, listId, customerId) ==
    LET rows == {r \in ls : r.customer_id = Bigint(customerId)}
    IN  <<ls \ rows, {i \in its : \A r \in rows : i.list_id # r.id}, rows>>

\* a bug: the DELETE has no RETURNING clause, and gives no rows back
DeleteFromUnreported(ls, its, listId, customerId) ==
    LET rows == SelectList(ls, listId, customerId)
    IN  <<ls \ rows, {i \in its : \A r \in rows : i.list_id # r.id}, {}>>

\* DELETE FROM lists WHERE id = $1 AND customer_id = $2 RETURNING id, with
\* ON DELETE CASCADE of list_items: <<lists, list_items, returned rows>>
DeleteFrom(ls, its, listId, customerId) ==
    LET rows == SelectList(ls, listId, customerId)
    IN  <<ls \ rows, {i \in its : \A r \in rows : i.list_id # r.id}, rows>>

\* case "delete": the statement and the answer
DeleteList(s) ==
    /\ pc[s] = "delete"
    /\ \E fail \in Failing(req[s].customer_id) :
        LET d == DeleteFrom(lists, items, req[s].list_id, req[s].customer_id)
        IN  IF fail
            THEN Thrown(s) /\ UNCHANGED <<lists, items>>
            ELSE /\ d[3] # {} => ~MustWait(s, req[s].list_id)
                 /\ lists' = d[1]
                 /\ items' = d[2]
                 /\ IF d[3] = {} THEN Respond(s, json(404, Fail("List not found")))
                    ELSE Finish(s, json(200, [ok |-> TRUE]),
                                Observe(s, req[s].list_id, {Gone}))
    /\ UNCHANGED <<now, nextListId, req, secret, admin, http, client, calls>>

\* a bug: the upsert opens its transaction without looking at name and items
ReceiveUpsertUnchecked(s) ==
    \E c \in Customers, l \in NameableIds \cup {NoId}, p \in Payloads :
        /\ Arrive(s, "upsert", c, l, p.name, p.items)
        /\ Goto(s, "connect")
        /\ loc' = [loc EXCEPT ![s] = [NoLoc EXCEPT !.name = Trim(p.name),
                                                   !.items = safeParseItems(p.items)]]
        /\ UNCHANGED <<lists, items, now, nextListId>>

\* case "upsert", to pool.connect()
ReceiveUpsert(s) ==
    \E c \in Customers, l \in NameableIds \cup {NoId}, p \in Payloads :
        LET name == Trim(p.name)
            parsed == safeParseItems(p.items)
        IN  /\ Arrive(s, "upsert", c, l, p.name, p.items)
            /\ IF name = <<>>
               THEN Finish(s, json(400, Fail("Missing name")), [loc EXCEPT ![s] = NoLoc])
               ELSE IF parsed = <<>>
               THEN Finish(s, json(400, Fail("No valid items provided")),
                           [loc EXCEPT ![s] = NoLoc])
               ELSE /\ Goto(s, "connect")
                    /\ loc' = [loc EXCEPT ![s] = [NoLoc EXCEPT !.name = name,
                                                               !.items = parsed]]
            /\ UNCHANGED <<lists, items, now, nextListId>>

\* a bug: the catch block starts the transaction again
CaughtBeginsAgain(s) ==
    /\ Goto(s, "begin")
    /\ loc' = [loc EXCEPT ![s].failed = TRUE, ![s].threw = pc[s]]

\* a statement of the transaction fails: the catch block is next, with the
\* exception of that statement
Caught(s) ==
    /\ Goto(s, "rollback")
    /\ loc' = [loc EXCEPT ![s].failed = TRUE, ![s].threw = pc[s]]

\* const client = await pool.connect()
UpsertConnect(s) ==
    /\ pc[s] = "connect"
    /\ \E fail \in BOOLEAN :
        IF fail THEN Thrown(s) /\ UNCHANGED client
        ELSE /\ Goto(s, "begin") /\ UNCHANGED loc
             /\ client' = [client EXCEPT ![s].acquired = @ + 1]
    /\ UNCHANGED <<lists, items, now, nextListId, req, secret, admin, http, calls>>

\* BEGIN; let listId = listIdRaw
UpsertBegin(s) ==
    /\ pc[s] = "begin"
    /\ \E fail \in BOOLEAN :
        IF fail THEN Caught(s) /\ now' = now
        ELSE /\ now' = now + 1
             /\ loc' = [loc EXCEPT ![s].ts = now + 1, ![s].listId = req[s].list_id]
             /\ Goto(s, IF req[s].list_id # NoId THEN "list_update" ELSE "list_insert")
    /\ client' = [client EXCEPT ![s].begun = @ + 1]
    /\ UNCHANGED <<lists, items, nextListId, req, secret, admin, http, calls>>

\* UPDATE lists SET name = $1, updated_at = NOW()
\* WHERE id = $2 AND customer_id = $3 RETURNING id
UpsertUpdate(s) ==
    /\ pc[s] = "list_update"
    /\ \E fail \in Failing(req[s].customer_id) :
        IF fail THEN Caught(s)
        ELSE IF SelectList(lists, loc[s].listId, req[s].customer_id) # {}
             THEN /\ ~MustWait(s, loc[s].listId)
                  /\ loc' = [loc EXCEPT ![s].wrote = "update"]
                  /\ Goto(s, "items_delete")
             ELSE Goto(s, "list_insert") /\ UNCHANGED loc
    /\ UNCHANGED <<lists, items, now, nextListId, req, secret, admin, http, client, calls>>

\* a bug: INSERT INTO lists (id, customer_id, name), with the list_id of the
\* request as the id when it has one
UpsertInsertWithRequestedId(s) ==
    /\ pc[s] = "list_insert"
    /\ \E fail \in Failing(req[s].customer_id) :
        IF fail THEN Caught(s) /\ nextListId' = nextListId
        ELSE /\ nextListId' = nextListId + 1
             /\ loc' = [loc EXCEPT ![s].wrote = "insert",
                                   ![s].listId = IF req[s].list_id # NoId
                                                 THEN req[s].list_id ELSE nextListId]
             /\ Goto(s, "items_delete")
    /\ UNCHANGED <<lists, items, now, req, secret, admin, http, client, calls>>

\* INSERT INTO lists (customer_id, name) VALUES ($1, $2) RETURNING id
UpsertInsert(s) ==
    /\ pc[s] = "list_insert"
    /\ \E fail \in Failing(req[s].customer_id) :
        IF fail THEN Caught(s) /\ nextListId' = nextListId
        ELSE /\ nextListId' = nextListId + 1
             /\ loc' = [loc EXCEPT ![s].wrote = "insert", ![s].listId = nextListId]
             /\ Goto(s, "items_delete")
    /\ UNCHANGED <<lists, items, now, req, secret, admin, http, client, calls>>

\* DELETE FROM list_items WHERE list_id = $1
UpsertDeleteItems(s) ==
    /\ pc[s] = "items_delete"
    /\ \E fail \in BOOLEAN :
        IF fail THEN Caught(s)
        ELSE /\ loc' = [loc EXCEPT ![s].del = ItemsOf(items, loc[s].listId)]
             /\ Goto(s, "items_insert")
    /\ UNCHANGED <<lists, items, now, nextListId, req, secret, admin, http, client, calls>>

\* INSERT INTO list_items (list_id, sku, quantity) VALUES ...
UpsertInsertItems(s) ==
    /\ pc[s] = "items_insert"
    /\ \E fail \in FailingItems(loc[s].items) :
        IF fail THEN Caught(s)
        ELSE /\ loc' = [loc EXCEPT ![s].ins = TRUE]
             /\ Goto(s, "commit")
    /\ UNCHANGED <<lists, items, now, nextListId, req, secret, admin, http, client, calls>>

\* a bug: the UPDATE leaves updated_at as it was
CommitListsStaleTime(ls, l, c) ==
    IF l.wrote = "update"
    THEN {IF r.id = l.listId THEN [r EXCEPT !.name = l.name] ELSE r : r \in ls}
    ELSE IF l.wrote = "insert"
    THEN ls \cup {[id |-> l.listId, customer_id |-> Bigint(c),
          name |-> l.name, updated_at |-> l.ts]}
    ELSE ls

\* a bug: the upsert inserts a list row whether or not its UPDATE found one
CommitListsAlwaysInserts(ls, l, c) ==
    IF l.wrote = "none" THEN ls
    ELSE ls \cup {[id |-> l.listId, customer_id |-> Bigint(c),
          name |-> l.name, updated_at |-> l.ts]}

\* table lists once the transaction l of customer c is committed
CommitLists(ls, l, c) ==
    IF l.wrote = "update"
    THEN {IF r.id = l.listId THEN [r EXCEPT !.name = l.name, !.updated_at = l.ts] ELSE r :
            r \in ls}
    ELSE IF l.wrote = "insert"
    THEN ls \cup {[id |-> l.listId, customer_id |-> Bigint(c),
          name |-> l.name, updated_at |-> l.ts]}
    ELSE ls

\* the rows the item INSERT of transaction l adds
NewItems(l) ==
    {[list_id |-> l.listId, sku |-> l.items[k].sku, quantity |-> Int4(l.items[k].quantity),
      created_at |-> l.ts, n |-> k] : k \in 1..Len(l.items)}

\* a bug: the DELETE of the old items is missing
CommitItemsKeepsOld(its, l) == its \cup (IF l.ins THEN NewItems(l) ELSE {})

\* a bug: the INSERT of the new items is missing
CommitItemsDeletesOnly(its, l) == its \ l.del

\* table list_items once the transaction l is committed
CommitItems(its, l) == (its \ l.del) \cup (IF l.ins THEN NewItems(l) ELSE {})

\* a bug: the catch block commits what the transaction has done
RollbackCommits(ls, its, l, c) == <<CommitLists(ls, l, c), CommitItems(its, l)>>

\* the store once the transaction l of customer c is rolled back
Rollback(ls, its, l, c) == <<ls, its>>

\* a bug: client.release() at the end of the try and of the catch block,
\* so that it is skipped when ROLLBACK throws
FinallyUnlessThrown(c, threw) ==
    IF threw THEN c ELSE [c EXCEPT !.released = @ + 1]

\* finally { client.release() }: whether or not the block before it threw
Finally(c, threw) == [c EXCEPT !.released = @ + 1]

\* COMMIT, the answer, and client.release()
UpsertCommit(s) ==
    /\ pc[s] = "commit"
    /\ \E fail \in BOOLEAN :
        IF fail THEN Caught(s) /\ UNCHANGED <<lists, items, client>>
        ELSE /\ client' = [client EXCEPT ![s] = Finally(client[s], FALSE)]
             /\ lists' = CommitLists(lists, loc[s], req[s].customer_id)
             /\ items' = CommitItems(items, loc[s])
             /\ Finish(s, json(200, [ok |-> TRUE, list_id |-> loc[s].listId]),
                       Observe(s, loc[s].listId,
                               {Pair(loc[s].name, SelectItems(items', loc[s].listId))}))
    /\ UNCHANGED <<now, nextListId, req, secret, admin, http, calls>>

\* the catch block: ROLLBACK, the answer, and client.release(); when ROLLBACK
\* fails the outer catch block answers, with the same body
UpsertRollback(s) ==
    /\ pc[s] = "rollback"
    /\ \E fail \in BOOLEAN :
        LET back == Rollback(lists, items, loc[s], req[s].customer_id)
        IN  /\ lists' = back[1]
            /\ items' = back[2]
            /\ Respond(s, json(500, Fail("Server error")))
            /\ client' = [client EXCEPT ![s] = Finally(client[s], fail)]
    /\ UNCHANGED <<now, nextListId, req, secret, admin, http, calls>>

\* requests that have passed verifyAppProxy and the guard of the handler
Next ==
    \E s \in Slots :
        \/ ReceiveList(s) /\ UNCHANGED <<secret, admin, http, client, calls>>
        \/ ListLists(s)
        \/ ReceiveGet(s) /\ UNCHANGED <<secret, admin, http, client, calls>>
        \/ GetList(s)
        \/ GetItems(s)
        \/ ReceiveOrderify(s) /\ UNCHANGED <<secret, admin, http, client, calls>>
        \/ OrderifyList(s)
        \/ OrderifyItems(s)
        \/ ReceiveDelete(s) /\ UNCHANGED <<secret, admin, http, client, calls>>
        \/ DeleteList(s)
        \/ ReceiveUpsert(s) /\ UNCHANGED <<secret, admin, http, client, calls>>
        \/ UpsertConnect(s)
        \/ UpsertBegin(s)
        \/ UpsertUpdate(s)
        \/ UpsertInsert(s)
        \/ UpsertDeleteItems(s)
        \/ UpsertInsertItems(s)
        \/ UpsertCommit(s)
        \/ UpsertRollback(s)

Spec == Init /\ [][Next]_vars

(***************************************************************************)
(* safeParseItems on its own: an items field of every shape, decoded.      *)
(***************************************************************************)
\* the longest array of an items field
MaxLen == 2

SkuValues ==
    { Undef, Str(<<" ">>), Str(<<" ", "A", " ">>), Str(<<"\t", "A", "\n">>),
      Num(<<"0">>), Num(<<"7">>), PlainObj(TRUE), PlainObj(FALSE),
      Arr(<<>>), Arr(<<Str(<<"A">>)>>) }

\* 2^53 + 1, which is no double, and a number above every double
AboveTwoTo53 == Succ(TwoTo53)
AboveDoubles == [i \in 1..(MaxDigits + 1) |-> "9"]

QuantityValues ==
    { Undef, Null, Num(<<"2">>), Num(<<"-", "1">>), Num(<<"2", ".", "5">>),
      Num(<<"1", "e", "+", "2", "1">>),
      Str(<<"x">>), Str(<<" ", "+", "3", "x">>), Str(<<"\t", "4">>), Str(<<"0", "0">>),
      Str(AboveTwoTo53), Str(AboveDoubles), Arr(<<Num(<<"3">>)>>), PlainObj(FALSE) }

\* the elements of an items array: objects, and values that are no objects
Entries ==
    {Entry(sku, q) : sku \in SkuValues, q \in QuantityValues} \cup {Null, Num(<<"5">>)}

Arrays == UNION {[1..n -> Entries] : n \in 0..MaxLen}

ItemsInputs ==
    {ItemsAbsent, ItemsMalformed}
    \cup {ItemsJson(v) : v \in {Null, Num(<<"5">>), Entry(Str(<<"A">>), Num(<<"2">>))}}
    \cup {ItemsJson(Arr(a)) : a \in Arrays}

InitItems ==
    /\ lists = {FirstList}
    /\ items = FirstItems
    /\ now = 0
    /\ nextListId = FirstId + 1
    /\ pc = [s \in Slots |-> "idle"]
    /\ \E v \in ItemsInputs :
          req = [s \in Slots |-> IF s = 1 THEN [NoReq EXCEPT !.action = "upsert",
                                                             !.items = v]
                                          ELSE NoReq]
    /\ loc = [s \in Slots |-> NoLoc]
    /\ resp = [s \in Slots |-> NoResp]
    /\ secret = AppSecret
    /\ admin = TRUE
    /\ http = [s \in Slots |-> NoHttp]
    /\ client = [s \in Slots |-> NoClient]
    /\ calls = [s \in Slots |-> <<>>]

\* const items = safeParseItems(req.body?.items)
Decode(s) ==
    /\ pc[s] = "idle" /\ req[s].action = "upsert"
    /\ loc' = [loc EXCEPT ![s].items = safeParseItems(req[s].items)]
    /\ pc' = [pc EXCEPT ![s] = "decoded"]
    /\ UNCHANGED <<lists, items, now, nextListId, req, resp, secret, admin, http, client, calls>>

NextItems == \E s \in Slots : Decode(s)

SpecItems == InitItems /\ [][NextItems]_vars

(***************************************************************************)
(* verifyAppProxy.  The query string is the sequence of its key=value      *)
(* pairs in the order they arrive; keys and values are text.               *)
(***************************************************************************)
KAction == <<"a", "c", "t", "i", "o", "n">>
KActions == <<"a", "c", "t", "i", "o", "n", "s">>
KCustomerId == <<"c", "u", "s", "t", "o", "m", "e", "r", "_", "i", "d">>
KShop == <<"s", "h", "o", "p">>
KSignature == <<"s", "i", "g", "n", "a", "t", "u", "r", "e">>

\* the characters of the model in the order of their code units
CharOrder ==
    <<"\t", "\n", "\r", " ", "&", ",",
      "0", "1", "2", "3", "4", "5", "6", "7", "8", "9", ":", "=", "_",
      "a", "b", "c", "d", "e", "f", "g", "h", "i", "j", "k", "l", "m", "n", "o", "p",
      "q", "r", "s", "t", "u", "v", "w", "x", "y", "z", "~">>
Code(c) == CHOOSE i \in DOMAIN CharOrder : CharOrder[i] = c

RECURSIVE LexLess(_, _)
\* a < b as Array.prototype.sort() compares strings
LexLess(a, b) ==
    IF b = <<>> THEN FALSE
    ELSE IF a = <<>> THEN TRUE
    ELSE IF Head(a) = Head(b) THEN LexLess(Tail(a), Tail(b))
    ELSE Code(Head(a)) < Code(Head(b))

RECURSIVE Sorted(_)
\* Object.keys(q).sort()
Sorted(keys) ==
    IF keys = {} THEN <<>>
    ELSE LET least == CHOOSE k \in keys : \A x \in keys \ {k} : LexLess(k, x)
         IN  <<least>> \o Sorted(keys \ {least})

\* the keys of req.query
QueryKeys(pairs) == {pairs[i][1] : i \in DOMAIN pairs}

\* the values that arrive under key k, in their order
ValuesOf(pairs, k) ==
    LET at == SelectSeq([i \in DOMAIN pairs |-> i], LAMBDA i : pairs[i][1] = k)
    IN  [n \in DOMAIN at |-> pairs[at[n]][2]]

RECURSIVE Join(_, _)
\* Array.prototype.join(sep)
Join(texts, sep) ==
    IF texts = <<>> THEN <<>>
    ELSE IF Len(texts) = 1 THEN texts[1]
    ELSE texts[1] \o sep \o Join(Tail(texts), sep)

\* the text of req.query[k]: the value of a key that arrives once, and the
\* values of one that arrives several times (an array) joined by commas,
\* which is what both join(",") and toString() give
QueryText(pairs, k) == Join(ValuesOf(pairs, k), <<",">>)

\* req.query[k] || "" as text
QueryOrEmpty(pairs, k) == IF k \in QueryKeys(pairs) THEN QueryText(pairs, k) ELSE <<>>

\* a bug: the keys are taken in the order they first arrive
MessageUnsorted(pairs) ==
    LET first == SelectSeq([i \in DOMAIN pairs |-> i],
                           LAMBDA i : /\ pairs[i][1] # KSignature
                                      /\ \A j \in 1..(i - 1) : pairs[j][1] # pairs[i][1])
    IN  Join([n \in DOMAIN first |->
                 pairs[first[n]][1] \o <<"=">> \o QueryText(pairs, pairs[first[n]][1])],
             <<>>)

\* the canonical message: the keys but signature, sorted, each as key=value
Message(pairs) ==
    LET keys == Sorted(QueryKeys(pairs) \ {KSignature})
    IN  Join([n \in DOMAIN keys |-> keys[n] \o <<"=">> \o QueryText(pairs, keys[n])],
             <<>>)

\* the length of a SHA-256 digest in hex
HexLen == 64

\* createHmac("sha256", key).update(message).digest("hex"): HexLen symbols
\* that the key and the message determine.  The model takes a keyed hash
\* with no collisions: its first two symbols are the whole key and the
\* whole message, each as one string, and the others are 0, so that two
\* digests are equal exactly when their keys and their messages are
HmacSha256Hex(key, message) ==
    <<Text(key), Text(message)>> \o [i \in 1..(HexLen - 2) |-> "0"]

\* what verifyAppProxy does: it calls next(), or it answers
PassOn == [next |-> TRUE]
Reject(r) == [next |-> FALSE, resp |-> r]

\* a bug: a signature of the right length passes
verifyAppProxyLengthOnly(pairs, key) ==
    LET provided == QueryOrEmpty(pairs, KSignature)
    IN  IF key = NoSecret THEN PassOn
        ELSE IF provided = <<>> THEN Reject(json(401, Fail("Missing signature")))
        ELSE IF Len(provided) # HexLen
             THEN Reject(json(401, Fail("Invalid signature")))
             ELSE PassOn

verifyAppProxy(pairs, key) ==
    LET provided == QueryOrEmpty(pairs, KSignature)
        digest == HmacSha256Hex(key, Message(pairs))
    IN  IF key = NoSecret THEN PassOn
        ELSE IF provided = <<>> THEN Reject(json(401, Fail("Missing signature")))
        ELSE IF Len(digest) # Len(provided) \/ digest # provided
             THEN Reject(json(401, Fail("Invalid signature")))
             ELSE PassOn

\* the most parameters of a query string, the signature not counted
MaxParams == 3

\* the parameters a query string is made of
ParamPairs ==
    { <<KShop, <<"x">>>>, <<KAction, <<"l", "i", "s", "t">>>>,
      <<KCustomerId, <<"4", "1">>>>, <<KCustomerId, <<"4", "2">>>> }

Queries == UNION {[1..n -> ParamPairs] : n \in 0..MaxParams}

\* a signature of the wrong length, and one of the right length
ShortSignature == <<"a", "b">>
ZeroSignature == [i \in 1..HexLen |-> "0"]

\* the signatures a query string q comes with: none, an empty one, two that
\* are no digest, the digest under the secret and under another key, and
\* the digests of the parameters put together in other ways
SignaturesOf(q) ==
    {[given |-> FALSE, text |-> <<>>]} \cup
    {[given |-> TRUE, text |-> t] :
        t \in { <<>>, ShortSignature, ZeroSignature,
                HmacSha256Hex(AppSecret, Message(q)),
                HmacSha256Hex(<<"j">>, Message(q)),
                HmacSha256Hex(AppSecret, MessageUnsorted(q)),
                HmacSha256Hex(AppSecret,
                    Join([n \in DOMAIN q |-> q[n][1] \o <<"=">> \o q[n][2]], <<"&">>)) }}

Signed(q, sig) == IF sig.given THEN Append(q, <<KSignature, sig.text>>) ELSE q

\* the orders in which the parameters of a query string can arrive
Rearrangements(q) ==
    {[i \in DOMAIN q |-> q[f[i]]] :
        f \in {g \in [DOMAIN q -> DOMAIN q] :
                  \A i, j \in DOMAIN q : i # j => g[i] # g[j]}}

\* every handler has a request with the same parameters, in some order
InitVerify ==
    /\ lists = {FirstList}
    /\ items = FirstItems
    /\ now = 0
    /\ nextListId = FirstId + 1
    /\ pc = [s \in Slots |-> "idle"]
    /\ req = [s \in Slots |-> NoReq]
    /\ loc = [s \in Slots |-> NoLoc]
    /\ resp = [s \in Slots |-> NoResp]
    /\ secret \in {AppSecret, NoSecret}
    /\ admin = TRUE
    /\ \E q \in Queries :
         \E sig \in SignaturesOf(q) :
           \E f \in [Slots -> Rearrangements(Signed(q, sig))] :
             /\ f[1] = Signed(q, sig)
             /\ http = [s \in Slots |-> [method |-> "GET", query |-> f[s], body |-> Undef]]
             /\ client = [s \in Slots |-> NoClient]
             /\ calls = [s \in Slots |-> <<>>]

\* the middleware on its own
Verify(s) ==
    /\ pc[s] = "idle"
    /\ LET v == verifyAppProxy(http[s].query, secret)
       IN  IF v.next THEN Goto(s, "next") /\ UNCHANGED loc
           ELSE Respond(s, v.resp)
    /\ UNCHANGED <<lists, items, now, nextListId, req, secret, admin, http, client, calls>>

NextVerify == \E s \in Slots : Verify(s)

SpecVerify == InitVerify /\ [][NextVerify]_vars

(***************************************************************************)
(* The endpoint /proxy as a whole: verifyAppProxy, the checks of the       *)
(* handler, and the six actions.  From the arrival of a request to the     *)
(* first await of its action nothing else runs, so that is one step.       *)
(***************************************************************************)
\* req.query[k] is truthy: a text that is not empty, or an array
QueryTruthy(pairs, k) ==
    k \in QueryKeys(pairs) /\ (Len(ValuesOf(pairs, k)) > 1 \/ QueryText(pairs, k) # <<>>)

\* (req.query.action || req.query.actions || "").toString().trim()
ActionOf(h) ==
    Trim(IF QueryTruthy(h.query, KAction) THEN QueryText(h.query, KAction)
         ELSE QueryOrEmpty(h.query, KActions))

\* a bug: the digits at the start of the text are taken as the id
normalizeCustomerIdPrefix(raw) ==
    IF raw.t \in {"undefined", "null"} THEN <<>>
    ELSE LET t == Trim(ToStr(raw).v)
             n == CHOOSE k \in 0..Len(t) :
                     /\ \A i \in 1..k : t[i] \in Digits
                     /\ k < Len(t) => t[k + 1] \notin Digits
         IN  SubSeq(t, 1, n)

\* normalizeCustomerId(raw); the empty text stands for null
normalizeCustomerId(raw) ==
    IF raw.t \in {"undefined", "null"} THEN <<>>
    ELSE LET t == Trim(ToStr(raw).v)
         IN  IF t = <<>> THEN <<>>
             ELSE IF \E i \in DOMAIN t : t[i] \notin Digits THEN <<>>
             ELSE t

\* a bug: req.body?.customer_id || req.query.customer_id
CustomerIdRawBodyFirst(h) ==
    IF Truthy(h.body) THEN h.body
    ELSE IF QueryTruthy(h.query, KCustomerId)
    THEN Str(QueryText(h.query, KCustomerId)) ELSE h.body

\* req.query.customer_id || req.body?.customer_id
CustomerIdRaw(h) ==
    IF QueryTruthy(h.query, KCustomerId) THEN Str(QueryText(h.query, KCustomerId))
    ELSE h.body

\* the table allowed of the handler
allowed ==
    [list |-> {"GET"}, get |-> {"GET"}, orderify |-> {"GET"},
     upsert |-> {"POST"}, delete |-> {"POST"}, draftpad |-> {"POST"}]

\* names that every object inherits: allowed[name] is a function or an
\* object, not undefined, and has no includes
Inherited ==
    {"constructor", "toString", "valueOf", "hasOwnProperty", "isPrototypeOf",
     "propertyIsEnumerable", "toLocaleString", "__proto__", "__defineGetter__",
     "__defineSetter__", "__lookupGetter__", "__lookupSetter__"}

\* a bug: the guard looks at the action and not at the method
GuardAnyMethod(action, method) ==
    IF action = "" \/ (action \notin DOMAIN allowed /\ action \notin Inherited)
    THEN Reject(json(400, Fail("Unsupported action/method. action="
                                \o (IF action = "" THEN "(missing)" ELSE action)
                                \o " method=" \o method)))
    ELSE IF action \in Inherited THEN Reject(json(500, Fail("Server error")))
    ELSE PassOn

\* if (!action || !allowed[action] || !allowed[action].includes(method));
\* calling includes of an inherited property throws, and the catch block of
\* the handler answers
Guard(action, method) ==
    IF action = "" \/ (action \notin DOMAIN allowed /\ action \notin Inherited)
    THEN Reject(json(400, Fail("Unsupported action/method. action="
                                \o (IF action = "" THEN "(missing)" ELSE action)
                                \o " method=" \o method)))
    ELSE IF action \in Inherited THEN Reject(json(500, Fail("Server error")))
    ELSE IF method \notin allowed[action]
    THEN Reject(json(400, Fail("Unsupported action/method. action=" \o action
                                \o " method=" \o method)))
    ELSE PassOn

\* the note form field of a draftpad
Notes == {<<" ">>, <<"n">>}

\* the cart_items form field of a draftpad: absent, or a cart of one entry
CartA == ItemsJson(Arr(<<Entry(Str(<<"A">>), Num(<<"2">>))>>))
Carts == {ItemsAbsent, CartA}

\* the customer_email, company_name and location_name form fields
Contexts ==
    { [customer_email |-> <<>>, company_name |-> <<>>, location_name |-> <<>>],
      [customer_email |-> <<>>, company_name |-> <<" ", "c">>, location_name |-> <<" ">>],
      [customer_email |-> <<"e">>, company_name |-> <<"c">>, location_name |-> <<"l">>] }

\* the form fields of a draftpad
DraftForms ==
    { [note |-> n, cart_items |-> c, customer_email |-> x.customer_email,
       company_name |-> x.company_name, location_name |-> x.location_name] :
        n \in Notes, c \in Carts, x \in Contexts }

\* shopifyGql when fetch rejects: it throws the error of fetch
FetchFailed ==
    [thrown |-> TRUE, message |-> "fetch failed", userErrors |-> <<>>, id |-> "",
     name |-> ""]

\* what shopifyGql gives the draftpad once fetch has settled: it throws
\* (r.text() rejects; the status is not 2xx), or it returns the reply of
\* draftOrderCreate with its userErrors and the id and name of its draft
PlatformReplies ==
    { [thrown |-> TRUE, message |-> "terminated", userErrors |-> <<>>, id |-> "",
       name |-> ""],
      [thrown |-> TRUE, message |-> "Shopify Admin API HTTP 502", userErrors |-> <<>>,
       id |-> "", name |-> ""],
      [thrown |-> FALSE, message |-> "", userErrors |-> <<"e1", "", "e2">>, id |-> "",
       name |-> ""],
      [thrown |-> FALSE, message |-> "", userErrors |-> <<>>, id |-> "", name |-> ""],
      [thrown |-> FALSE, message |-> "", userErrors |-> <<>>, id |-> "gid1",
       name |-> "#D1"] }

RECURSIVE JoinText(_, _)
\* join(sep) of strings
JoinText(texts, sep) ==
    IF texts = <<>> THEN ""
    ELSE IF Len(texts) = 1 THEN texts[1]
    ELSE texts[1] \o sep \o JoinText(Tail(texts), sep)

\* a || "Draft order not created"
OrNotCreated(text) == IF text = "" THEN "Draft order not created" ELSE text

\* the body of the answer of draftpad
DraftBody(reply) ==
    IF reply.thrown THEN Fail(OrNotCreated(reply.message))
    ELSE IF reply.userErrors # <<>>
    THEN Fail(OrNotCreated(JoinText(SelectSeq(reply.userErrors, LAMBDA m : m # ""),
                                    " | ")))
    ELSE IF reply.id = "" THEN Fail("Draft order not created")
    ELSE [ok |-> TRUE, draft_order_id |-> reply.id, draft_order_name |-> reply.name]

\* let header = "Order Pad Submission"; header += ...
Header(customerId, customerEmail, companyName, locationName) ==
    "Order Pad Submission" \o "\nCustomer ID: " \o Text(customerId)
        \o (IF customerEmail # "" THEN "\nEmail: " \o customerEmail ELSE "")
        \o (IF companyName # "" THEN "\nCompany: " \o companyName ELSE "")
        \o (IF locationName # "" THEN "\nLocation: " \o locationName ELSE "")

\* (req.body?.f || "").toString().trim()
FormText(f) == Text(Trim(f))

\* const finalNote = header + "\n\n" + note, of request r
finalNote(r) ==
    Header(r.customer_id, FormText(r.customer_email), FormText(r.company_name),
           FormText(r.location_name))
        \o "\n\n" \o FormText(r.note)

\* shopifyGql(mutation, { input }): the mutation, the note and the line
\* items of input
DraftOrderCreate(r) ==
    [mutation |-> "draftOrderCreate", note |-> finalNote(r),
     lineItems |-> <<[title |-> "Order Pad Submission", quantity |-> 1,
                      originalUnitPrice |-> "0.00"]>>]

\* if (!SHOPIFY_STORE_DOMAIN || !SHOPIFY_ADMIN_ACCESS_TOKEN) throw new Error(..):
\* shopifyGql throws before it calls fetch, and the catch block of the
\* draftpad answers with the message; else the handler suspends at fetch
CallPlatform(s) ==
    IF ~admin
    THEN Finish(s, json(200, Fail("Missing SHOPIFY_STORE_DOMAIN or "
                                   \o "SHOPIFY_ADMIN_ACCESS_TOKEN")),
                [loc EXCEPT ![s] = NoLoc])
    ELSE Goto(s, "draft_create") /\ loc' = [loc EXCEPT ![s] = NoLoc]

\* a bug: the draftpad goes on without a note
ReceiveDraftpadAnyNote(s) ==
    \E c \in Customers, form \in DraftForms :
        /\ Free(s)
        /\ req' = [req EXCEPT ![s] =
                     [NoReq EXCEPT !.action = "draftpad", !.customer_id = c,
                                   !.note = form.note,
                                   !.cart_items = form.cart_items,
                                   !.customer_email = form.customer_email,
                                   !.company_name = form.company_name,
                                   !.location_name = form.location_name]]
        /\ CallPlatform(s)
        /\ UNCHANGED <<lists, items, now, nextListId>>

\* case "draftpad", to the call of the platform
ReceiveDraftpad(s) ==
    \E c \in Customers, form \in DraftForms :
        /\ Free(s)
        /\ req' = [req EXCEPT ![s] =
                     [NoReq EXCEPT !.action = "draftpad", !.customer_id = c,
                                   !.note = form.note,
                                   !.cart_items = form.cart_items,
                                   !.customer_email = form.customer_email,
                                   !.company_name = form.company_name,
                                   !.location_name = form.location_name]]
        /\ IF Trim(form.note) = <<>>
           THEN Finish(s, json(400, Fail("Missing note")), [loc EXCEPT ![s] = NoLoc])
           ELSE CallPlatform(s)
        /\ UNCHANGED <<lists, items, now, nextListId>>

\* shopifyGql(mutation, { input }) has settled with reply: the call is
\* written to calls and the draftpad answers
DraftpadAnswer(s, reply) ==
    /\ calls' = [calls EXCEPT ![s] =
                   Append(@, [input |-> DraftOrderCreate(req[s]), reply |-> reply])]
    /\ Respond(s, json(200, DraftBody(reply)))

\* case "draftpad": const r = await fetch(url, ...) of shopifyGql settles.
\* When fetch rejects shopifyGql throws and the draftpad answers; else the
\* handler suspends at await r.text()
DraftpadCreate(s) ==
    /\ pc[s] = "draft_create"
    /\ \/ DraftpadAnswer(s, FetchFailed)
       \/ Goto(s, "draft_text") /\ UNCHANGED <<loc, calls>>
    /\ UNCHANGED <<lists, items, now, nextListId, req, secret, admin, http, client>>

\* case "draftpad": const text = await r.text() of shopifyGql settles, and
\* the draftpad answers
DraftpadText(s) ==
    /\ pc[s] = "draft_text"
    /\ \E reply \in PlatformReplies : DraftpadAnswer(s, reply)
    /\ UNCHANGED <<lists, items, now, nextListId, req, secret, admin, http, client>>

\* the draftpad of src/server.js on its own, with and without the domain
\* and the token of the platform in the environment
InitDraft ==
    /\ lists = {FirstList}
    /\ items = FirstItems
    /\ now = 0
    /\ nextListId = FirstId + 1
    /\ pc = [s \in Slots |-> "idle"]
    /\ req = [s \in Slots |-> NoReq]
    /\ loc = [s \in Slots |-> NoLoc]
    /\ resp = [s \in Slots |-> NoResp]
    /\ secret = AppSecret
    /\ admin \in BOOLEAN
    /\ http = [s \in Slots |-> NoHttp]
    /\ client = [s \in Slots |-> NoClient]
    /\ calls = [s \in Slots |-> <<>>]

NextDraft ==
    \E s \in Slots :
        \/ ReceiveDraftpad(s) /\ UNCHANGED <<secret, admin, http, client, calls>>
        \/ DraftpadCreate(s)
        \/ DraftpadText(s)

SpecDraft == InitDraft /\ [][NextDraft]_vars

\* a request: its method, its query parameters in the order q gives them
\* followed by the signature sig, and the customer_id of its form body
Http(method, q, sig, body) == [method |-> method, query |-> Signed(q, sig), body |-> body]

NoSignature == [given |-> FALSE, text |-> <<>>]
RightSignature(q) == [given |-> TRUE, text |-> HmacSha256Hex(AppSecret, Message(q))]
WrongSignatures ==
    {NoSignature, [given |-> TRUE, text |-> ShortSignature],
     [given |-> TRUE, text |-> ZeroSignature]}

\* action parameters with the method the table allows them
GoodActions ==
    { <<"GET", <<KAction, <<"l", "i", "s", "t">>>>>>,
      <<"GET", <<KActions, <<"\t", "l", "i", "s", "t", "\n">>>>>>,
      <<"GET", <<KAction, <<"g", "e", "t">>>>>>,
      <<"GET", <<KAction, <<"o", "r", "d", "e", "r", "i", "f", "y">>>>>>,
      <<"POST", <<KAction, <<"u", "p", "s", "e", "r", "t">>>>>>,
      <<"POST", <<KAction, <<"d", "e", "l", "e", "t", "e">>>>>>,
      <<"POST", <<KAction, <<"d", "r", "a", "f", "t", "p", "a", "d">>>>>> }

\* action parameters that name no action of the table: an empty one, an
\* unknown one, and two names that objects inherit
BadActions ==
    { <<KAction, <<>>>>, <<KAction, <<"n", "o", "p", "e">>>>,
      <<KAction, <<"c", "o", "n", "s", "t", "r", "u", "c", "t", "o", "r">>>>,
      <<KAction, <<"t", "o", "S", "t", "r", "i", "n", "g">>>> }

OtherMethod(method) == IF method = "GET" THEN "POST" ELSE "GET"

\* customer ids that pass normalizeCustomerId: <<query parameters, body>>
InQuery41 == << <<<<KCustomerId, <<"4", "1">>>>>>, Undef >>
InBody42 == << <<>>, Str(<<" ", "4", "2", "\n">>) >>
InBody041 == << <<>>, Arr(<<Str(<<"0", "4", "1">>)>>) >>
InQueryWide == << <<<<KCustomerId, [i \in 1..WideLen |-> "9"]>>>>, Undef >>
GoodCustomers == {InQuery41, InBody42}

\* and two more, for some of the actions: another text for the number 41, in
\* an array, and a number that is no BIGINT
MoreCustomers == {InBody041, InQueryWide}
SomeActions ==
    {a \in GoodActions :
        a[2] \in { <<KAction, <<"l", "i", "s", "t">>>>,
                   <<KAction, <<"d", "e", "l", "e", "t", "e">>>>,
                   <<KAction, <<"u", "p", "s", "e", "r", "t">>>> }}

\* customer ids that do not: none, a blank one in the query with a good one
\* in the body, one with a letter after its digits, and two under one key
NoCustomer == << <<>>, Undef >>
BadCustomers ==
    { NoCustomer,
      << <<<<KCustomerId, <<" ">>>>>>, Str(<<"4", "1">>) >>,
      << <<<<KCustomerId, <<"4", "1", "x">>>>>>, Undef >>,
      << <<<<KCustomerId, <<"4", "1">>>>, <<KCustomerId, <<"4", "2">>>>>>, Undef >> }

\* a request with method m, customer id c, action parameter a and, when
\* sig is not one of WrongSignatures, the right signature
Request(m, c, a, sig) ==
    Http(m, c[1] \o <<a>>,
         IF sig \in WrongSignatures THEN sig ELSE RightSignature(c[1] \o <<a>>), c[2])

Right == [given |-> TRUE, text |-> <<"r", "i", "g", "h", "t">>]

\* the requests of the model: rightly signed ones with every customer id
\* and action, with the method of the action and with the other one, and
\* wrongly signed ones with every action, some with either method
HttpRequests ==
    {Request(a[1], c, a[2], Right) : a \in GoodActions, c \in GoodCustomers \cup BadCustomers}
    \cup
    {Request(a[1], c, a[2], Right) : a \in SomeActions, c \in MoreCustomers}
    \cup
    {Request(m, c, a, Right) :
        m \in {"GET", "POST"}, a \in BadActions, c \in {InQuery41, NoCustomer}}
    \cup
    {Request(OtherMethod(a[1]), InQuery41, a[2], Right) : a \in GoodActions}
    \cup
    {Request(a[1], c, a[2], sig) :
        a \in GoodActions, c \in {InQuery41, NoCustomer}, sig \in WrongSignatures}
    \cup
    {Request("GET", InQuery41, a, sig) : a \in BadActions, sig \in WrongSignatures}
    \cup
    {Request(OtherMethod(a[1]), InQuery41, a[2], [given |-> TRUE, text |-> ZeroSignature]) :
        a \in GoodActions}

\* the request is answered before its action is looked at
Turned(s, r) ==
    /\ Finish(s, r, [loc EXCEPT ![s] = NoLoc])
    /\ UNCHANGED <<lists, items, now, nextListId, req>>

\* the form fields of the requests that come through verifyAppProxy, and of
\* the ones whose calls may never settle: an upsert names the first list or
\* none and has one of two payloads, a draftpad has a note or a blank one
\* and nothing else
FewPayloads ==
    { [name |-> <<"a">>, items |-> ItemsA], [name |-> <<" ">>, items |-> ItemsA] }
FewForms(r) ==
    /\ r.action = "upsert" =>
          /\ r.list_id \in {FirstId, NoId}
          /\ [name |-> r.name, items |-> r.items] \in FewPayloads
    /\ r.action = "draftpad" =>
          /\ r.cart_items = ItemsAbsent
          /\ r.customer_email = <<>> /\ r.company_name = <<>> /\ r.location_name = <<>>

\* switch (action), for customer c
Dispatch(s, action, c) ==
    /\ \/ action = "list" /\ ReceiveList(s)
       \/ action = "get" /\ ReceiveGet(s)
       \/ action = "orderify" /\ ReceiveOrderify(s)
       \/ action = "upsert" /\ ReceiveUpsert(s)
       \/ action = "delete" /\ ReceiveDelete(s)
       \/ action = "draftpad" /\ ReceiveDraftpad(s)
    /\ req'[s].customer_id = c
    /\ FewForms(req'[s])

\* a request arrives: verifyAppProxy, then the handler to its first await
Proxy(s) ==
    \E h \in HttpRequests :
        /\ Free(s)
        /\ http' = [http EXCEPT ![s] = h]
        /\ UNCHANGED <<secret, admin, client, calls>>
        /\ LET v == verifyAppProxy(h.query, secret)
               customerId == normalizeCustomerId(CustomerIdRaw(h))
               g == Guard(Text(ActionOf(h)), h.method)
           IN  IF ~v.next THEN Turned(s, v.resp)
               ELSE IF customerId = <<>>
               THEN Turned(s, json(400, Fail("Missing customer_id")))
               ELSE IF ~g.next THEN Turned(s, g.resp)
               ELSE Dispatch(s, Text(ActionOf(h)), customerId)

InitProxy ==
    /\ lists = {FirstList}
    /\ items = FirstItems
    /\ now = 0
    /\ nextListId = FirstId + 1
    /\ pc = [s \in Slots |-> "idle"]
    /\ req = [s \in Slots |-> NoReq]
    /\ loc = [s \in Slots |-> NoLoc]
    /\ resp = [s \in Slots |-> NoResp]
    /\ secret \in {AppSecret, NoSecret}
    /\ admin \in BOOLEAN
    /\ http = [s \in Slots |-> NoHttp]
    /\ client = [s \in Slots |-> NoClient]
    /\ calls = [s \in Slots |-> <<>>]

NextProxy ==
    \E s \in Slots :
        \/ Proxy(s)
        \/ ListLists(s)
        \/ GetList(s) \/ GetItems(s)
        \/ OrderifyList(s) \/ OrderifyItems(s)
        \/ DeleteList(s)
        \/ UpsertConnect(s) \/ UpsertBegin(s)
        \/ UpsertUpdate(s) \/ UpsertInsert(s)
        \/ UpsertDeleteItems(s) \/ UpsertInsertItems(s)
        \/ UpsertCommit(s) \/ UpsertRollback(s)
        \/ DraftpadCreate(s) \/ DraftpadText(s)

SpecProxy == InitProxy /\ [][NextProxy]_vars

(***************************************************************************)
(* The draftpad of the second server of src/unnamed/part_003 (its lines    *)
(* 571 to 1110).  Its shopifyGql returns { ok: false, error } where the    *)
(* one of src/server.js throws, and its draftpad has no try block.         *)
(***************************************************************************)
\* shopifyGql when fetch or r.text() rejects: it throws
Part003b_Thrown ==
    [gql |-> "thrown", userErrors |-> <<>>, id |-> "", name |-> "", invoiceUrl |-> ""]

\* what shopifyGql gives once fetch has settled: r.text() throws; or
\* { ok: false } for a status that is not 2xx, a body that is no JSON, or
\* errors; or { ok: true, data } with the userErrors and the draft of
\* draftOrderCreate
Part003b_GqlResults ==
    { Part003b_Thrown,
      [gql |-> "failed", userErrors |-> <<>>, id |-> "", name |-> "", invoiceUrl |-> ""],
      [gql |-> "ok", userErrors |-> <<"e1", "", "e2">>, id |-> "", name |-> "",
       invoiceUrl |-> ""],
      [gql |-> "ok", userErrors |-> <<>>, id |-> "", name |-> "", invoiceUrl |-> ""],
      [gql |-> "ok", userErrors |-> <<>>, id |-> "gid1", name |-> "#D1",
       invoiceUrl |-> ""] }

\* the fields of the shipping address that the draftpad passes on
Part003b_AddressFields ==
    {"firstName", "lastName", "address1", "address2", "city", "province", "zip",
     "country", "phone", "company"}

\* a JSON object with the properties fields
Part003b_Object(fields) == [t |-> "object", fields |-> fields]

\* the shipping_address_json form field: absent, text JSON.parse rejects,
\* null, a number, an object with no property, and one with a city, an
\* empty zip and a property the draftpad does not pass on
Part003b_ShippingJsons ==
    { ItemsAbsent, ItemsMalformed, ItemsJson(Null), ItemsJson(Num(<<"5">>)),
      ItemsJson(Part003b_Object([f \in {} |-> Undef])),
      ItemsJson(Part003b_Object([city |-> Str(<<"X">>), zip |-> Str(<<>>),
                                 planet |-> Str(<<"M">>)])) }

\* addr.f: the property f of what JSON.parse gave, undefined when it has none
Part003b_Property(addr, f) ==
    IF addr.t = "object" /\ f \in DOMAIN addr.fields THEN addr.fields[f] ELSE Undef

\* let shippingAddress = null; if (shippingJson) { try { const addr =
\* JSON.parse(shippingJson); shippingAddress = { firstName: addr.firstName ||
\* undefined, ... } } catch { shippingAddress = null } }: reading a property
\* of null throws; a property that is undefined is none of the object sent
Part003b_shippingAddress(shippingJson) ==
    IF shippingJson.k # "json" \/ shippingJson.v.t \in {"null", "undefined"}
    THEN [given |-> FALSE, fields |-> <<>>]
    ELSE [given |-> TRUE,
          fields |-> [f \in {g \in Part003b_AddressFields :
                                Truthy(Part003b_Property(shippingJson.v, g))} |->
                         Part003b_Property(shippingJson.v, f)]]

\* the note, company_name, location_name, rep_email and
\* shipping_address_json form fields: every note and context with no
\* address, and a note alone with every address
Part003b_Forms ==
    { [note |-> n, company_name |-> x.company_name,
       location_name |-> x.location_name, rep_email |-> x.customer_email,
       shipping_address_json |-> ItemsAbsent] :
        n \in Notes, x \in Contexts }
    \cup
    { [note |-> <<"n">>, company_name |-> <<>>, location_name |-> <<>>,
       rep_email |-> <<>>, shipping_address_json |-> a] :
        a \in Part003b_ShippingJsons }

\* let header = "Order Pad Submission"; ...; finalNote = header + "\n\n" + note
Part003b_finalNote(r) ==
    "Order Pad Submission" \o "\nCustomer ID: " \o Text(r.customer_id)
        \o (IF FormText(r.company_name) # ""
            THEN "\nCompany: " \o FormText(r.company_name) ELSE "")
        \o (IF FormText(r.location_name) # ""
            THEN "\nLocation: " \o FormText(r.location_name) ELSE "")
        \o (IF FormText(r.rep_email) # ""
            THEN "\nSales Rep: " \o FormText(r.rep_email) ELSE "")
        \o "\n\n" \o FormText(r.note)

\* const input = { customerId: customerGid, note: finalNote };
\* if (shippingAddress) input.shippingAddress = shippingAddress
Part003b_DraftOrderCreate(r) ==
    LET shippingAddress == Part003b_shippingAddress(r.shipping_address_json)
    IN  IF shippingAddress.given
        THEN [mutation |-> "draftOrderCreate", note |-> Part003b_finalNote(r),
              customerId |-> "gid://shopify/Customer/" \o Text(r.customer_id),
              shippingAddress |-> shippingAddress.fields]
        ELSE [mutation |-> "draftOrderCreate", note |-> Part003b_finalNote(r),
              customerId |-> "gid://shopify/Customer/" \o Text(r.customer_id)]

\* the answer of the draftpad to what shopifyGql gave it
Part003b_DraftResponse(reply) ==
    IF reply.gql = "thrown" THEN json(500, Fail("Server error"))
    ELSE IF reply.gql = "failed" THEN json(500, Fail("Draft order not created"))
    ELSE IF reply.userErrors # <<>>
    THEN json(400, Fail(OrNotCreated(reply.userErrors[1])))
    ELSE IF reply.id = "" THEN json(500, Fail("Draft order not created"))
    ELSE json(200, [ok |-> TRUE, draft_id |-> reply.id, draft_name |-> reply.name,
                    invoice_url |-> IF reply.invoiceUrl = "" THEN Null
                                    ELSE Str(reply.invoiceUrl)])

\* case "draftpad", to the call of the platform
Part003b_ReceiveDraftpad(s) ==
    \E c \in Customers, form \in Part003b_Forms :
        /\ Free(s)
        /\ req' = [req EXCEPT ![s] =
                     [NoReq EXCEPT !.action = "draftpad", !.customer_id = c,
                                   !.note = form.note,
                                   !.company_name = form.company_name,
                                   !.location_name = form.location_name,
                                   !.rep_email = form.rep_email,
                                   !.shipping_address_json =
                                       form.shipping_address_json]]
        /\ IF Trim(form.note) = <<>>
           THEN Finish(s, json(400, Fail("Missing note")), [loc EXCEPT ![s] = NoLoc])
           ELSE IF ~admin
           THEN Finish(s, json(500, Fail("Draft order not created")),
                       [loc EXCEPT ![s] = NoLoc])
           ELSE Goto(s, "draft_create") /\ loc' = [loc EXCEPT ![s] = NoLoc]
        /\ UNCHANGED <<lists, items, now, nextListId, secret, admin, http, client, calls>>

\* shopifyGql(mutation, { input }) has settled with reply: the call is
\* written to calls and the draftpad answers
Part003b_DraftpadAnswer(s, reply) ==
    /\ calls' = [calls EXCEPT ![s] =
                   Append(@, [input |-> Part003b_DraftOrderCreate(req[s]),
                              reply |-> reply])]
    /\ Respond(s, Part003b_DraftResponse(reply))

\* case "draftpad": const r = await fetch(url, ...) of shopifyGql settles.
\* When fetch rejects the handler answers; else it suspends at await r.text()
Part003b_DraftpadCreate(s) ==
    /\ pc[s] = "draft_create"
    /\ \/ Part003b_DraftpadAnswer(s, Part003b_Thrown)
       \/ Goto(s, "draft_text") /\ UNCHANGED <<loc, calls>>
    /\ UNCHANGED <<lists, items, now, nextListId, req, secret, admin, http, client>>

\* case "draftpad": const text = await r.text() of shopifyGql settles, and
\* the draftpad answers
Part003b_DraftpadText(s) ==
    /\ pc[s] = "draft_text"
    /\ \E reply \in Part003b_GqlResults : Part003b_DraftpadAnswer(s, reply)
    /\ UNCHANGED <<lists, items, now, nextListId, req, secret, admin, http, client>>

\* with and without the domain and the token of the platform in the
\* environment
InitPart003b == InitDraft

NextPart003b ==
    \E s \in Slots :
        \/ Part003b_ReceiveDraftpad(s)
        \/ Part003b_DraftpadCreate(s)
        \/ Part003b_DraftpadText(s)

SpecPart003b == InitPart003b /\ [][NextPart003b]_vars

(***************************************************************************)
(* The upload of a purchase order in src/unnamed/part_001: upload_po and   *)
(* uploadToShopifyFiles, one step for each await.                          *)
(***************************************************************************)
\* req.file: none, and the file of the multipart body
Part001_Files ==
    { NoReq.file,
      [given |-> TRUE, originalname |-> "po.pdf", mimetype |-> "application/pdf"],
      [given |-> TRUE, originalname |-> "", mimetype |-> ""] }

\* target.parameters: an array of name and value, or no array
Part001_Parameters == [array |-> TRUE, entries |-> <<[name |-> "key", value |-> "k1"]>>]
Part001_NoParameters == [array |-> FALSE, entries |-> <<>>]

\* staged.stagedUploadsCreate.stagedTargets[0]: none, and a whole one
Part001_NoTarget == [url |-> "", resourceUrl |-> "", parameters |-> Part001_NoParameters]
Part001_Target ==
    [url |-> "https://upload.example/1", resourceUrl |-> "res1",
     parameters |-> Part001_Parameters]

\* e.message of a fetch that rejects: the exception may have no message
Part001_FetchFailures == {"fetch failed", ""}

\* shopifyGql throws for stagedUploadsCreate
Part001_StagedThrown(message) ==
    [thrown |-> TRUE, message |-> message, userErrors |-> <<>>,
     target |-> Part001_NoTarget]

\* what stagedUploadsCreate gives once fetch has settled: r.text() rejects or
\* shopifyGql throws for what it has read, or userErrors, or targets (none,
\* one with no resourceUrl, one whose parameters are no array, a whole one)
Part001_StagedReplies ==
    { Part001_StagedThrown("terminated"),
      Part001_StagedThrown("Shopify Admin API HTTP 500"),
      [thrown |-> FALSE, message |-> "", userErrors |-> <<"e1", "", "e2">>,
       target |-> Part001_Target],
      [thrown |-> FALSE, message |-> "", userErrors |-> <<"">>,
       target |-> Part001_NoTarget],
      [thrown |-> FALSE, message |-> "", userErrors |-> <<>>,
       target |-> Part001_NoTarget],
      [thrown |-> FALSE, message |-> "", userErrors |-> <<>>,
       target |-> [Part001_Target EXCEPT !.resourceUrl = ""]],
      [thrown |-> FALSE, message |-> "", userErrors |-> <<>>,
       target |-> [Part001_Target EXCEPT !.parameters = Part001_NoParameters]],
      [thrown |-> FALSE, message |-> "", userErrors |-> <<>>,
       target |-> Part001_Target] }

\* up.ok and up.status of the response to the POST to the target
Part001_UploadHeads == { [ok |-> FALSE, status |-> "403"], [ok |-> TRUE, status |-> "201"] }

\* the end of the slice of the text of a failed upload
Part001_SliceEnd == 200

\* the body of that response: empty, a short one, and one that is one
\* character longer than the slice
Part001_UploadTexts ==
    { <<>>, <<"d", "e", "n", "i", "e", "d">>, [i \in 1..(Part001_SliceEnd + 1) |-> "x"] }

\* fetch(target.url) throws
Part001_UploadThrown(message) ==
    [thrown |-> TRUE, message |-> message, ok |-> FALSE, status |-> "", text |-> <<>>]

\* the response to the POST to the target, its body not read
Part001_UploadResponse(head) ==
    [thrown |-> FALSE, message |-> "", ok |-> head.ok, status |-> head.status,
     text |-> <<>>]

\* fc.files[0]: its url and the url of its image, "" for none
Part001_NoFile == [url |-> "", image |-> ""]

\* shopifyGql throws for fileCreate
Part001_FileThrown(message) ==
    [thrown |-> TRUE, message |-> message, userErrors |-> <<>>, file |-> Part001_NoFile]

\* what fileCreate gives once fetch has settled: r.text() rejects or
\* shopifyGql throws for what it has read, or userErrors, or files[0] (with
\* no url, with a url, with the url of an image)
Part001_FileReplies ==
    { Part001_FileThrown("terminated"),
      Part001_FileThrown("Shopify GraphQL error"),
      [thrown |-> FALSE, message |-> "", userErrors |-> <<"f1">>,
       file |-> Part001_NoFile],
      [thrown |-> FALSE, message |-> "", userErrors |-> <<>>, file |-> Part001_NoFile],
      [thrown |-> FALSE, message |-> "", userErrors |-> <<>>,
       file |-> [url |-> "https://cdn.example/po.pdf", image |-> ""]],
      [thrown |-> FALSE, message |-> "", userErrors |-> <<>>,
       file |-> [url |-> "", image |-> "https://cdn.example/po.png"]] }

\* errs.map((e) => e.message).filter(Boolean).join(" | ") || fallback
Part001_Messages(userErrors, fallback) ==
    LET text == JoinText(SelectSeq(userErrors, LAMBDA m : m # ""), " | ")
    IN  IF text = "" THEN fallback ELSE text

\* no exception, and an exception with its message
Part001_NoError == [thrown |-> FALSE, message |-> ""]
Part001_Error(message) == [thrown |-> TRUE, message |-> message]

\* the exception of the first step: the one of shopifyGql, the one for the
\* userErrors, the one for a target with no url, no resourceUrl or
\* parameters that are no array
Part001_StagedError(reply) ==
    IF reply.thrown THEN Part001_Error(reply.message)
    ELSE IF reply.userErrors # <<>>
    THEN Part001_Error(Part001_Messages(reply.userErrors, "stagedUploadsCreate failed"))
    ELSE IF \/ reply.target.url = ""
            \/ reply.target.resourceUrl = ""
            \/ ~reply.target.parameters.array
    THEN Part001_Error("Missing staged upload target")
    ELSE Part001_NoError

\* txt.slice(0, end)
Part001_slice(txt, end) == SubSeq(txt, 1, IF Len(txt) < end THEN Len(txt) ELSE end)

\* the exception of the second step: the one of fetch, and for a response
\* that is not ok the one with its status and the slice of its text
Part001_UploadError(reply) ==
    IF reply.thrown THEN Part001_Error(reply.message)
    ELSE IF ~reply.ok
    THEN Part001_Error("Staged upload failed (" \o reply.status \o "): "
                       \o Text(Part001_slice(reply.text, Part001_SliceEnd)))
    ELSE Part001_NoError

\* f?.url || f?.image?.url || null, "" for null
Part001_FileUrl(file) == IF file.url # "" THEN file.url ELSE file.image

\* the exception of the third step: the one of shopifyGql, the one for the
\* userErrors, the one for a file with no url
Part001_FileError(reply) ==
    IF reply.thrown THEN Part001_Error(reply.message)
    ELSE IF reply.userErrors # <<>>
    THEN Part001_Error(Part001_Messages(reply.userErrors, "fileCreate failed"))
    ELSE IF Part001_FileUrl(reply.file) = ""
    THEN Part001_Error("File created but URL not returned yet")
    ELSE Part001_NoError

\* a bug: the exception of a step is dropped and the next step is made
Part001_CatchGoesOn(s, message) ==
    IF pc[s] \in {"staged", "staged_text"} THEN Goto(s, "upload") /\ UNCHANGED loc
    ELSE IF pc[s] \in {"upload", "upload_text"}
    THEN Goto(s, "file_create") /\ UNCHANGED loc
    ELSE Respond(s, json(200, Fail(IF message = "" THEN "Upload failed" ELSE message)))

\* catch (e): { ok: false, error: e.message || "Upload failed" }
Part001_Catch(s, message) ==
    Respond(s, json(200, Fail(IF message = "" THEN "Upload failed" ELSE message)))

\* shopifyGql to its fetch: it throws when the domain or the token of the
\* platform is not set, and the catch block of upload_po answers
Part001_shopifyGql(s, label) ==
    IF ~admin
    THEN Part001_Catch(s, "Missing SHOPIFY_STORE_DOMAIN or "
                          \o "SHOPIFY_ADMIN_ACCESS_TOKEN")
    ELSE Goto(s, label) /\ UNCHANGED loc

\* case "upload_po", to the fetch of the first call of uploadToShopifyFiles
Part001_ReceiveUploadPo(s) ==
    \E c \in Customers, f \in Part001_Files :
        /\ Free(s)
        /\ req' = [req EXCEPT ![s] =
                     [NoReq EXCEPT !.action = "upload_po", !.customer_id = c,
                                   !.file = f]]
        /\ IF ~f.given
           THEN Finish(s, json(400, Fail("Missing file")), [loc EXCEPT ![s] = NoLoc])
           ELSE Part001_shopifyGql(s, "staged")
        /\ UNCHANGED <<lists, items, now, nextListId, secret, admin, http, client, calls>>

\* (f.originalname || "po-upload").toString()
Part001_Filename(f) == IF f.originalname = "" THEN "po-upload" ELSE f.originalname

\* (f.mimetype || "application/octet-stream").toString()
Part001_MimeType(f) == IF f.mimetype = "" THEN "application/octet-stream" ELSE f.mimetype

\* the call of stagedUploadsCreate with its variables and what it gave
Part001_StagedCall(s, reply) ==
    [step |-> "stagedUploadsCreate",
     input |-> [filename |-> Part001_Filename(req[s].file),
                mimeType |-> Part001_MimeType(req[s].file)],
     reply |-> reply]

\* the POST to target.url with its form (the parameters of the target, then
\* the file) and what it gave
Part001_UploadCall(s, reply) ==
    [step |-> "upload",
     input |-> [url |-> calls[s][1].reply.target.url,
                fields |-> calls[s][1].reply.target.parameters.entries,
                file |-> [filename |-> Part001_Filename(req[s].file),
                          type |-> Part001_MimeType(req[s].file)]],
     reply |-> reply]

\* the call of fileCreate with its variables and what it gave
Part001_FileCall(s, reply) ==
    [step |-> "fileCreate",
     input |-> [originalSource |-> calls[s][1].reply.target.resourceUrl,
                alt |-> Part001_Filename(req[s].file)],
     reply |-> reply]

\* const staged = await shopifyGql(...): the await of its fetch
Part001_StagedUploadsCreate(s) ==
    /\ pc[s] = "staged"
    /\ \E failed \in BOOLEAN, message \in Part001_FetchFailures :
        IF failed
        THEN /\ calls' = [calls EXCEPT ![s] =
                            Append(@, Part001_StagedCall(s, Part001_StagedThrown(message)))]
             /\ Part001_Catch(s, message)
        ELSE Goto(s, "staged_text") /\ UNCHANGED <<loc, calls>>
    /\ UNCHANGED <<lists, items, now, nextListId, req, secret, admin, http, client>>

\* const staged = await shopifyGql(...): the await of r.text(), and
\* uploadToShopifyFiles to the fetch of its POST to the target
Part001_StagedUploadsCreateText(s) ==
    /\ pc[s] = "staged_text"
    /\ \E reply \in Part001_StagedReplies :
        /\ calls' = [calls EXCEPT ![s] = Append(@, Part001_StagedCall(s, reply))]
        /\ IF Part001_StagedError(reply).thrown
           THEN Part001_Catch(s, Part001_StagedError(reply).message)
           ELSE Goto(s, "upload") /\ UNCHANGED loc
    /\ UNCHANGED <<lists, items, now, nextListId, req, secret, admin, http, client>>

\* const up = await fetch(target.url, { method: "POST", body: form }), and
\* for a response that is ok uploadToShopifyFiles to the fetch of fileCreate
Part001_StagedUpload(s) ==
    /\ pc[s] = "upload"
    /\ \E failed \in BOOLEAN, message \in Part001_FetchFailures,
          head \in Part001_UploadHeads :
        IF failed
        THEN /\ calls' = [calls EXCEPT ![s] =
                            Append(@, Part001_UploadCall(s, Part001_UploadThrown(message)))]
             /\ Part001_Catch(s, message)
        ELSE /\ calls' = [calls EXCEPT ![s] =
                            Append(@, Part001_UploadCall(s, Part001_UploadResponse(head)))]
             /\ IF head.ok THEN Part001_shopifyGql(s, "file_create")
                ELSE Goto(s, "upload_text") /\ UNCHANGED loc
    /\ UNCHANGED <<lists, items, now, nextListId, req, secret, admin, http, client>>

\* const txt = await up.text().catch(() => ""), and the throw with the slice
\* of txt
Part001_StagedUploadText(s) ==
    /\ pc[s] = "upload_text"
    /\ \E rejected \in BOOLEAN, text \in Part001_UploadTexts :
        LET txt == IF rejected THEN <<>> ELSE text
            reply == [calls[s][2].reply EXCEPT !.text = txt]
        IN  /\ calls' = [calls EXCEPT ![s][2].reply = reply]
            /\ Part001_Catch(s, Part001_UploadError(reply).message)
    /\ UNCHANGED <<lists, items, now, nextListId, req, secret, admin, http, client>>

\* const created = await shopifyGql(fileCreateMutation, ...): the await of
\* its fetch
Part001_FileCreate(s) ==
    /\ pc[s] = "file_create"
    /\ \E failed \in BOOLEAN, message \in Part001_FetchFailures :
        IF failed
        THEN /\ calls' = [calls EXCEPT ![s] =
                            Append(@, Part001_FileCall(s, Part001_FileThrown(message)))]
             /\ Part001_Catch(s, message)
        ELSE Goto(s, "file_text") /\ UNCHANGED <<loc, calls>>
    /\ UNCHANGED <<lists, items, now, nextListId, req, secret, admin, http, client>>

\* const created = await shopifyGql(fileCreateMutation, ...): the await of
\* r.text(), and the answer of upload_po
Part001_FileCreateText(s) ==
    /\ pc[s] = "file_text"
    /\ \E reply \in Part001_FileReplies :
        /\ calls' = [calls EXCEPT ![s] = Append(@, Part001_FileCall(s, reply))]
        /\ IF Part001_FileError(reply).thrown
           THEN Part001_Catch(s, Part001_FileError(reply).message)
           ELSE Respond(s, json(200, [ok |-> TRUE, url |-> Part001_FileUrl(reply.file)]))
    /\ UNCHANGED <<lists, items, now, nextListId, req, secret, admin, http, client>>

\* the domain and the token of the platform are both set, or not
InitPart001 == InitDraft

NextPart001 ==
    \E s \in Slots :
        \/ Part001_ReceiveUploadPo(s)
        \/ Part001_StagedUploadsCreate(s)
        \/ Part001_StagedUploadsCreateText(s)
        \/ Part001_StagedUpload(s)
        \/ Part001_StagedUploadText(s)
        \/ Part001_FileCreate(s)
        \/ Part001_FileCreateText(s)

SpecPart001 == InitPart001 /\ [][NextPart001]_vars

(***************************************************************************)
(* The verifier of src/unnamed/part_000 (and, word for word, of            *)
(* src/unnamed/part_002): verifyAppProxySignature, as proxyHandler calls   *)
(* it.                                                                     *)
(***************************************************************************)
\* Array.isArray(req.query[k]) ? req.query[k][0] : req.query[k]
Part000_QueryFirst(pairs, k) == ValuesOf(pairs, k)[1]

\* keys.map(k => `${k}=${...}`).join(""), the keys but signature, sorted
Part000_Message(pairs) ==
    LET keys == Sorted(QueryKeys(pairs) \ {KSignature})
    IN  Join([n \in DOMAIN keys |->
                 keys[n] \o <<"=">> \o Part000_QueryFirst(pairs, keys[n])], <<>>)

\* verifyAppProxySignature(req): true or false, or it throws
Part000_verifyAppProxySignature(pairs, key) ==
    LET provided == QueryOrEmpty(pairs, KSignature)
        digest == HmacSha256Hex(key, Part000_Message(pairs))
    IN  IF key = NoSecret THEN "throws"
        ELSE IF provided = <<>> THEN "false"
        ELSE IF Len(digest) # Len(provided) THEN "false"
        ELSE IF digest = provided THEN "true" ELSE "false"

\* the signatures a query string comes with: none, one of the wrong length,
\* and the digests of its message with all the values of a key and with the
\* first value of a key
Part000_SignaturesOf(q) ==
    {[given |-> FALSE, text |-> <<>>]} \cup
    {[given |-> TRUE, text |-> t] :
        t \in { ShortSignature,
                HmacSha256Hex(AppSecret, Message(q)),
                HmacSha256Hex(AppSecret, Part000_Message(q)) }}

\* the requests of the handlers, each with its own parameters and signature
InitPart000 ==
    /\ lists = {FirstList}
    /\ items = FirstItems
    /\ now = 0
    /\ nextListId = FirstId + 1
    /\ pc = [s \in Slots |-> "idle"]
    /\ req = [s \in Slots |-> NoReq]
    /\ loc = [s \in Slots |-> NoLoc]
    /\ resp = [s \in Slots |-> NoResp]
    /\ secret \in {AppSecret, NoSecret}
    /\ admin = TRUE
    /\ \E q \in Queries :
         \E f \in [Slots -> Part000_SignaturesOf(q)] :
             http = [s \in Slots |->
                       [method |-> "POST", query |-> Signed(q, f[s]), body |-> Undef]]
    /\ client = [s \in Slots |-> NoClient]
    /\ calls = [s \in Slots |-> <<>>]

\* proxyHandler, to the end of its check of the signature
Part000_Verify(s) ==
    /\ pc[s] = "idle"
    /\ LET okSig == Part000_verifyAppProxySignature(http[s].query, secret)
       IN  IF okSig = "throws"
           THEN Respond(s, json(500, Fail("Missing env var: SHOPIFY_APP_SECRET")))
           ELSE IF okSig = "false"
           THEN Respond(s, json(401, Fail("Invalid proxy signature")))
           ELSE Goto(s, "next") /\ UNCHANGED loc
    /\ UNCHANGED <<lists, items, now, nextListId, req, secret, admin, http, client, calls>>

NextPart000 == \E s \in Slots : Part000_Verify(s)

SpecPart000 == InitPart000 /\ [][NextPart000]_vars

(***************************************************************************)
(* The upsert of the first server of src/unnamed/part_003 (its lines 1 to  *)
(* 570).  Its statements are those of src/server.js; its two catch blocks  *)
(* add the message of the exception to the body of the answer.             *)
(***************************************************************************)
\* the messages of the exceptions that any call of the store may throw: one
\* with no message, and the one of a connection that has ended
Part003a_Messages == {"", "connection terminated unexpectedly"}

\* the message of the store for a parameter that its column cannot hold
Part003a_OutOfRange(text, type) ==
    "value \"" \o text \o "\" is out of range for type " \o type

\* the quantity of the first entry that is no INT: the store reads the
\* parameters of a statement in their order.  The text of a Number below
\* 10^21 is its digits
Part003a_FirstWide(entries) ==
    LET k == CHOOSE i \in DOMAIN entries :
                 /\ ~InInt4(entries[i].quantity)
                 /\ \A j \in 1..(i - 1) : InInt4(entries[j].quantity)
    IN  entries[k].quantity

\* e.message of the exception thrown by the statement at a position of the
\* transaction, with the customer id and the items of the request: any
\* statement may fail as any call of the store does; the UPDATE and the
\* INSERT of the list fail on a customer id that is no BIGINT and the INSERT
\* of the items on a quantity that is no INT, each with the message of the
\* store that quotes the value
Part003a_Thrown(position, customerId, entries) ==
    Part003a_Messages
    \cup (IF position \in {"list_update", "list_insert"} /\ ~InBigint(customerId)
          THEN {Part003a_OutOfRange(Text(customerId), "bigint")} ELSE {})
    \cup (IF position = "items_insert"
             /\ \E k \in DOMAIN entries : ~InInt4(entries[k].quantity)
          THEN {Part003a_OutOfRange(Text(Part003a_FirstWide(entries)), "integer")}
          ELSE {})

\* { ok: false, error: "Server error", detail: e?.message || "" }
Part003a_ServerError(message) ==
    [ok |-> FALSE, error |-> "Server error", detail |-> message]

\* const client = await pool.connect(); when it throws the outer catch answers
Part003a_UpsertConnect(s) ==
    /\ pc[s] = "connect"
    /\ \E fail \in BOOLEAN :
        IF fail
        THEN /\ \E message \in Part003a_Messages :
                    Finish(s, json(500, Part003a_ServerError(message)),
                           [loc EXCEPT ![s].failed = TRUE])
             /\ UNCHANGED client
        ELSE /\ Goto(s, "begin") /\ UNCHANGED loc
             /\ client' = [client EXCEPT ![s].acquired = @ + 1]
    /\ UNCHANGED <<lists, items, now, nextListId, req, secret, admin, http, calls>>

\* the catch block: ROLLBACK, the answer with e?.message || "" of the
\* exception e that the failed statement threw, and client.release(); when
\* ROLLBACK throws, the outer catch block answers with the message of the
\* exception of ROLLBACK
Part003a_UpsertRollback(s) ==
    /\ pc[s] = "rollback"
    /\ \E fail \in BOOLEAN :
        \E message \in IF fail THEN Part003a_Messages
                        ELSE Part003a_Thrown(loc[s].threw, req[s].customer_id,
                                             loc[s].items) :
            LET back == Rollback(lists, items, loc[s], req[s].customer_id)
            IN  /\ lists' = back[1]
                /\ items' = back[2]
                /\ Respond(s, json(500, Part003a_ServerError(message)))
                /\ client' = [client EXCEPT ![s] = Finally(client[s], fail)]
    /\ UNCHANGED <<now, nextListId, req, secret, admin, http, calls>>

InitPart003a == Init

NextPart003a ==
    \E s \in Slots :
        \/ ReceiveUpsert(s) /\ UNCHANGED <<secret, admin, http, client, calls>>
        \/ Part003a_UpsertConnect(s)
        \/ UpsertBegin(s)
        \/ UpsertUpdate(s)
        \/ UpsertInsert(s)
        \/ UpsertDeleteItems(s)
        \/ UpsertInsertItems(s)
        \/ UpsertCommit(s)
        \/ Part003a_UpsertRollback(s)

SpecPart003a == InitPart003a /\ [][NextPart003a]_vars

(***************************************************************************)
(* Calls that never settle.  The pool of src/server.js is made from a      *)
(* connection string and the ssl option alone, and fetch is given no       *)
(* signal: the handler sets no timer of its own, so a handler whose call   *)
(* never settles stays suspended at its await.                             *)
(***************************************************************************)
\* the awaits of the upsert: pool.connect() and the queries of its client
StoreAwaits ==
    {"connect", "begin", "list_update", "list_insert", "items_delete",
     "items_insert", "commit", "rollback"}

\* new Pool({ connectionString, ssl }): the call awaited never settles
StoreStall(s) ==
    /\ pc[s] \in StoreAwaits
    /\ pc' = [pc EXCEPT ![s] = "stalled"]
    /\ UNCHANGED <<lists, items, now, nextListId, req, loc, resp, secret, admin, http,
                   client, calls>>

\* await fetch(url, { method, headers, body }) and await r.text(): the call
\* never settles
PlatformStall(s) ==
    /\ pc[s] \in {"draft_create", "draft_text"}
    /\ pc' = [pc EXCEPT ![s] = "stalled"]
    /\ UNCHANGED <<lists, items, now, nextListId, req, loc, resp, secret, admin, http,
                   client, calls>>

\* a call of handler s settles and the handler runs to its next await
Resume(s) ==
    \/ UpsertConnect(s)
    \/ UpsertBegin(s)
    \/ UpsertUpdate(s)
    \/ UpsertInsert(s)
    \/ UpsertDeleteItems(s)
    \/ UpsertInsertItems(s)
    \/ UpsertCommit(s)
    \/ UpsertRollback(s)
    \/ DraftpadCreate(s)
    \/ DraftpadText(s)

InitStall == Init

NextStall ==
    \E s \in Slots :
        \/ /\ ReceiveUpsert(s) /\ FewForms(req'[s])
           /\ UNCHANGED <<secret, admin, http, client, calls>>
        \/ /\ ReceiveDraftpad(s) /\ FewForms(req'[s])
           /\ UNCHANGED <<secret, admin, http, client, calls>>
        \/ UpsertConnect(s)
        \/ UpsertBegin(s)
        \/ UpsertUpdate(s)
        \/ UpsertInsert(s)
        \/ UpsertDeleteItems(s)
        \/ UpsertInsertItems(s)
        \/ UpsertCommit(s)
        \/ UpsertRollback(s)
        \/ DraftpadCreate(s)
        \/ DraftpadText(s)
        \/ StoreStall(s)
        \/ PlatformStall(s)

\* a handler whose call settles is resumed by the event loop
SpecStall ==
    InitStall /\ [][NextStall]_vars /\ \A s \in Slots : WF_vars(Resume(s))

(***************************************************************************)
(* Properties.                                                             *)
(***************************************************************************)
NotFound == json(404, Fail("List not found"))

\* list listId exists and belongs to a customer other than c
Foreign(listId, c) == \E r \in lists : r.id = listId /\ r.customer_id # c

\* no list has the id listId
Absent(listId) == \A r \in lists : r.id # listId

\* handler s executes the statement that checks the ownership of the list
OwnershipStep(s) ==
    /\ pc[s] \in {"get_list", "orderify_list", "delete"}
    /\ pc'[s] # pc[s]
    /\ ~loc'[s].failed

\* C1: a get, delete or orderify of customer A that names a list of another
\* customer is answered exactly as one that names a list nobody has: with 404
\* "List not found", and with the store left as it was.
C1_TenantIsolation ==
    [][\A s \in Slots :
          /\ OwnershipStep(s)
          /\ \/ Foreign(req[s].list_id, Bigint(req[s].customer_id))
             \/ Absent(req[s].list_id)
          => resp'[s] = NotFound /\ lists' = lists /\ items' = items]_vars

\* two requests of one customer with the same action, one naming the list of
\* another customer and one naming no list at all, both answered 404
C1_Witness ==
    \E s, t \in Slots :
        /\ pc[s] = "done" /\ pc[t] = "done"
        /\ req[s].action \in {"get", "delete", "orderify"}
        /\ req[t].action = req[s].action
        /\ Bigint(req[t].customer_id) = Bigint(req[s].customer_id)
        /\ Foreign(req[s].list_id, Bigint(req[s].customer_id))
        /\ req[t].list_id # NoId /\ Absent(req[t].list_id)
        /\ resp[s] = NotFound /\ resp[t] = resp[s]

\* the rows of lists, and of list_items, that belong to customers other than c
ForeignLists(ls, c) == {r \in ls : r.customer_id # c}
ForeignItems(ls, its, c) ==
    {i \in its : \E r \in ForeignLists(ls, c) : r.id = i.list_id}

\* handler s takes a step
Step(s) == pc'[s] # pc[s]

\* C2: no step of a request with customer id A changes or deletes a list row
\* or an item row of another customer.
C2_NoForeignWrite ==
    [][\A s \in Slots :
          Step(s) =>
            /\ ForeignLists(lists', Bigint(req'[s].customer_id))
                  = ForeignLists(lists, Bigint(req'[s].customer_id))
            /\ ForeignItems(lists', items', Bigint(req'[s].customer_id))
                  = ForeignItems(lists, items, Bigint(req'[s].customer_id))]_vars

\* an upsert that named the list of another customer has committed, and a
\* delete that named it has been answered; the list is as it was
C2_Witness ==
    \E s, t \in Slots :
        /\ pc[s] = "done" /\ req[s].action = "upsert" /\ resp[s].status = 200
        /\ pc[t] = "done" /\ req[t].action = "delete" /\ resp[t].status = 404
        /\ Bigint(req[s].customer_id) # FirstList.customer_id
        /\ Bigint(req[t].customer_id) # FirstList.customer_id
        /\ req[s].list_id = FirstId /\ req[t].list_id = FirstId
        /\ FirstList \in lists /\ FirstItems \subseteq items

\* the labels of an upsert from BEGIN to the end of its transaction
InTransaction ==
    {"begin", "list_update", "list_insert", "items_delete", "items_insert", "commit",
     "rollback"}

ServerError == json(500, Fail("Server error"))

\* C3: a step of an upsert transaction changes the committed lists and items
\* only when it is a COMMIT that succeeds; once a statement has failed no
\* step of the upsert changes them, and the upsert is answered 500.
C3_FailedUpsertChangesNothing ==
    [][\A s \in Slots :
          pc[s] \in InTransaction /\ Step(s) =>
            /\ loc'[s].failed => lists' = lists /\ items' = items
            /\ loc'[s].failed /\ pc'[s] = "done" => resp'[s] = ServerError
            /\ loc[s].failed => loc'[s].failed
            /\ pc[s] # "commit" => lists' = lists /\ items' = items]_vars

\* an upsert of the first list has failed after its UPDATE and has been
\* answered 500; the store is as it was when the service started
C3_Witness ==
    \E s \in Slots :
        /\ pc[s] = "done" /\ req[s].action = "upsert"
        /\ loc[s].failed /\ loc[s].wrote = "update" /\ loc[s].listId = FirstId
        /\ resp[s] = ServerError
        /\ Trim(req[s].name) # FirstList.name
        /\ lists = {FirstList} /\ items = FirstItems

\* the multiset of the elements of a sequence
RangeOf(seq) == {seq[k] : k \in DOMAIN seq}
BagOfSeq(seq) ==
    [x \in RangeOf(seq) |-> Cardinality({k \in DOMAIN seq : seq[k] = x})]

\* in the store <<ls, its>> the list with id listId has the name and exactly
\* the valid items of the upsert request r
HasPayloadIn(ls, its, listId, r) ==
    /\ \A row \in ls : row.id = listId => row.name = Trim(r.name)
    /\ BagOfSeq(SelectItems(its, listId)) = BagOfSeq(safeParseItems(r.items))

HasPayload(listId, r) == HasPayloadIn(lists, items, listId, r)

\* upserts s and t have both committed an update of the same list
BothCommitted(s, t) ==
    /\ s # t
    /\ pc[s] = "done" /\ req[s].action = "upsert" /\ resp[s].status = 200
    /\ pc[t] = "done" /\ req[t].action = "upsert" /\ resp[t].status = 200
    /\ req[s].list_id = req[t].list_id
    /\ Bigint(req[s].customer_id) = Bigint(req[t].customer_id)
    /\ loc[s].wrote = "update" /\ loc[t].wrote = "update"

\* nothing has written list listId since upserts s and t
LastWrittenBy(listId, s, t) ==
    \E row \in lists : row.id = listId /\ row.updated_at \in {loc[s].ts, loc[t].ts}

\* C4: when two upserts of the same list of the same customer have both
\* committed, the list has the name and the items of one of the two
\* requests: never the items of both, nor the name of one with the items of
\* the other.
C4_NoMixedUpsert ==
    \A s, t \in Slots :
        BothCommitted(s, t) /\ LastWrittenBy(req[s].list_id, s, t) =>
            \/ HasPayload(req[s].list_id, req[s])
            \/ HasPayload(req[s].list_id, req[t])

\* two upserts of the first list with different names and items have both
\* committed, and they overlapped: t began first and committed last
C4_Witness ==
    \E s, t \in Slots :
        /\ BothCommitted(s, t)
        /\ req[s].list_id = FirstId
        /\ Trim(req[s].name) # Trim(req[t].name)
        /\ loc[t].ts < loc[s].ts
        /\ \E row \in lists : row.id = FirstId /\ row.updated_at = loc[t].ts
        /\ HasPayload(FirstId, req[t])

\* C5: the name and the items in the answer of a get are those the list had
\* together at one moment from the first query of the get on, as long as the
\* list has not been deleted meanwhile: never the name of before an upsert
\* with the items of after it.
C5_GetSeesOneCommittedState ==
    \A s \in Slots :
        /\ pc[s] = "done" /\ req[s].action = "get" /\ resp[s].status = 200
        /\ Gone \notin loc[s].seen
        => Pair(resp[s].body.list.name, resp[s].body.list.items) \in loc[s].seen

\* handler s commits its transaction
Commits(s) == pc[s] = "commit" /\ Step(s) /\ ~loc'[s].failed

\* the list row an upsert of request r with transaction l leaves
RowOf(r, l) ==
    [id |-> l.listId, customer_id |-> Bigint(r.customer_id), name |-> Trim(r.name),
     updated_at |-> l.ts]

\* C6: an upsert whose list id matches a list of the caller updates the name
\* and updated_at of that list and returns its id; an upsert with no list id,
\* or with one that matches no list of the caller, inserts a list of the
\* caller under an id no list has and returns that id; both are answered 200.
C6_UpdateOrInsert ==
    [][\A s \in Slots :
          /\ pc[s] = "begin" /\ Step(s) /\ ~loc'[s].failed =>
                pc'[s] = IF req[s].list_id = NoId THEN "list_insert" ELSE "list_update"
          /\ pc[s] = "list_update" /\ Step(s) /\ ~loc'[s].failed =>
                IF \E r \in lists : r.id = req[s].list_id
                                     /\ r.customer_id = Bigint(req[s].customer_id)
                THEN /\ pc'[s] = "items_delete"
                     /\ loc'[s].wrote = "update"
                     /\ loc'[s].listId = req[s].list_id
                ELSE pc'[s] = "list_insert"
          /\ pc[s] = "list_insert" /\ Step(s) /\ ~loc'[s].failed =>
                /\ loc'[s].wrote = "insert"
                /\ \A t \in Slots \ {s} : loc'[s].listId # loc[t].listId
          /\ Commits(s) =>
                /\ resp'[s] = json(200, [ok |-> TRUE, list_id |-> loc[s].listId])
                /\ IF loc[s].wrote = "update"
                   THEN \E r \in lists :
                          /\ r.id = req[s].list_id
                          /\ r.customer_id = Bigint(req[s].customer_id)
                          /\ loc[s].listId = r.id
                          /\ lists' = (lists \ {r}) \cup {RowOf(req[s], loc[s])}
                   ELSE /\ \A r \in lists : r.id # loc[s].listId
                        /\ lists' = lists \cup {RowOf(req[s], loc[s])}]_vars

\* one upsert has updated the first list and returned its id, another, by a
\* customer who does not own it, named it and has inserted a list of its own
C6_Witness ==
    \E s, t \in Slots :
        /\ pc[s] = "done" /\ req[s].action = "upsert" /\ resp[s].status = 200
        /\ req[s].list_id = FirstId /\ resp[s].body.list_id = FirstId
        /\ RowOf(req[s], loc[s]) \in lists
        /\ pc[t] = "done" /\ req[t].action = "upsert" /\ resp[t].status = 200
        /\ req[t].list_id = FirstId /\ Bigint(req[t].customer_id) # FirstList.customer_id
        /\ resp[t].body.list_id # FirstId
        /\ RowOf(req[t], loc[t]) \in lists

\* C7: a committed upsert leaves its list with exactly the valid items of
\* the request and none of the earlier rows, and leaves the items of every
\* other list as they were.
C7_ReplacesAllItems ==
    [][\A s \in Slots :
          Commits(s) =>
            /\ BagOfSeq(SelectItems(items', loc[s].listId))
                  = BagOfSeq(safeParseItems(req[s].items))
            /\ {i \in items : i.list_id = loc[s].listId} \cap items' = {}
            /\ {i \in items' : i.list_id # loc[s].listId}
                  = {i \in items : i.list_id # loc[s].listId}]_vars

\* an upsert has replaced the one item of the first list by its two
C7_Witness ==
    \E s \in Slots :
        /\ pc[s] = "done" /\ req[s].action = "upsert" /\ resp[s].status = 200
        /\ resp[s].body.list_id = FirstId
        /\ Len(safeParseItems(req[s].items)) = 2
        /\ HasPayload(FirstId, req[s])
        /\ FirstItems \cap items = {}

\* C8: an upsert of a list that already has the name and the items of the
\* request leaves it with that name and those items, each once, and adds no
\* list; so any number of equal upserts in a row leave what the first left.
C8_RepeatedUpsert ==
    [][\A s \in Slots :
          /\ Commits(s)
          /\ loc[s].wrote = "update"
          /\ HasPayloadIn(lists, items, loc[s].listId, req[s])
          => /\ HasPayloadIn(lists', items', loc[s].listId, req[s])
             /\ Len(SelectItems(items', loc[s].listId)) = Len(safeParseItems(req[s].items))
             /\ {r.id : r \in lists'} = {r.id : r \in lists}
             /\ Cardinality(lists') = Cardinality(lists)]_vars

\* two equal upserts of the first list have committed one after the other,
\* and the list has the two items of the request once
C8_Witness ==
    \E s, t \in Slots :
        /\ BothCommitted(s, t)
        /\ req[s] = req[t] /\ req[s].list_id = FirstId
        /\ loc[s].ts < loc[t].ts
        /\ Len(safeParseItems(req[s].items)) = 2
        /\ HasPayload(FirstId, req[s])
        /\ Len(SelectItems(items, FirstId)) = 2
        /\ Cardinality(lists) = 1

\* C9: while nothing has written the list since an upsert of customer C
\* returned its id, a get by C of that id answers 200 with the trimmed name
\* and exactly the valid items of the upsert, and an orderify answers 200
\* with those items.
C9_ReadYourWrite ==
    \A s \in Slots :
        /\ pc[s] = "done" /\ req[s].action = "upsert" /\ resp[s].status = 200
        /\ \E r \in lists : r.id = resp[s].body.list_id /\ r.updated_at = loc[s].ts
        => LET c == Bigint(req[s].customer_id)
               l == resp[s].body.list_id
               want == BagOfSeq(safeParseItems(req[s].items))
           IN  /\ SelectList(lists, l, c) # {}
               /\ \A r \in SelectList(lists, l, c) :
                     /\ GetBody(r, SelectItems(items, l)).list.name = Trim(req[s].name)
                     /\ BagOfSeq(GetBody(r, SelectItems(items, l)).list.items) = want
               /\ BagOfSeq(OrderifyBody(SelectItems(items, l)).items) = want
               /\ \A t \in Slots :
                     /\ pc[t] = "done" /\ resp[t].status = 200
                     /\ req[t].list_id = l /\ Bigint(req[t].customer_id) = c
                     /\ loc[s].wrote = "insert"
                     => /\ req[t].action = "get" =>
                             /\ resp[t].body.list.name = Trim(req[s].name)
                             /\ BagOfSeq(resp[t].body.list.items) = want
                        /\ req[t].action = "orderify" =>
                             BagOfSeq(resp[t].body.items) = want

\* an upsert with a name in spaces has inserted a list, and a get of the
\* returned id by the same customer has answered with the trimmed name
C9_Witness ==
    \E s, t \in Slots :
        /\ pc[s] = "done" /\ req[s].action = "upsert" /\ resp[s].status = 200
        /\ loc[s].wrote = "insert"
        /\ req[s].name # Trim(req[s].name)
        /\ pc[t] = "done" /\ req[t].action = "get" /\ resp[t].status = 200
        /\ req[t].list_id = resp[s].body.list_id
        /\ Bigint(req[t].customer_id) = Bigint(req[s].customer_id)
        /\ resp[t].body.list.name = Trim(req[s].name)
        /\ BagOfSeq(resp[t].body.list.items) = BagOfSeq(safeParseItems(req[s].items))

\* the text of a sku or quantity that is present
TextOf(v) == ToStr(v).v

\* a sku whose text, were it trimmed, would not be empty
SkuValid(v) ==
    /\ Truthy(v)
    /\ \E k \in DOMAIN TextOf(v) : TextOf(v)[k] \notin WhiteSpace

\* text that parses to a finite integer greater than 0: after white space
\* and at most one "+", a run of digits that has a digit other than 0, and
\* the number of the whole run is no more than the largest double
TextPositive(txt) ==
    \E i \in DOMAIN txt, k \in DOMAIN txt :
        /\ i <= k
        /\ \A j \in 1..(i - 1) : txt[j] \in WhiteSpace \/ (j = i - 1 /\ txt[j] = "+")
        /\ \A j \in i..k : txt[j] \in Digits
        /\ txt[k] # "0"
        /\ ~ToDouble(FALSE, Canonical(DigitPrefix(SubSeq(txt, i, Len(txt))))).inf

\* a quantity that counts as 1 when missing and is positive otherwise
QuantityValid(v) == v.t \in {"undefined", "null"} \/ TextPositive(TextOf(v))

\* the conversion of a field of entry x to text throws
Unconvertible(x) ==
    x.t = "object" /\ PlainObj(FALSE) \in {x.sku, x.quantity}

EntryValid(x) == x.t = "object" /\ SkuValid(x.sku) /\ QuantityValid(x.quantity)

\* the items field can be decoded: it is JSON text of an array, and every
\* sku and quantity in it can be converted
Decodable(v) ==
    /\ v.k = "json" /\ v.v.t = "array"
    /\ \A k \in DOMAIN v.v.elems : ~Unconvertible(v.v.elems[k])

\* C10: decoding keeps exactly the entries whose trimmed sku is not empty
\* and whose quantity parses to an integer greater than 0 (a missing
\* quantity is 1), in their order, with the sku trimmed; an items field
\* that is absent, cannot be decoded or is no array gives no items.
C10_DecodeKeepsValidEntries ==
    \A s \in Slots :
        pc[s] = "decoded" =>
            LET v == req[s].items
                out == loc[s].items
            IN  IF ~Decodable(v) THEN out = <<>>
                ELSE LET valid == SelectSeq(v.v.elems, EntryValid)
                     IN  /\ Len(out) = Len(valid)
                         /\ \A k \in DOMAIN out :
                               /\ out[k].sku # <<>>
                               /\ Head(out[k].sku) \notin WhiteSpace
                               /\ out[k].sku[Len(out[k].sku)] \notin WhiteSpace
                               /\ out[k].sku = Trim(TextOf(valid[k].sku))
                               /\ out[k].quantity \in Seq(Digits)
                               /\ out[k].quantity = Canonical(out[k].quantity)
                               /\ out[k].quantity # <<"0">>
                               /\ valid[k].quantity.t \in {"undefined", "null"}
                                     => out[k].quantity = <<"1">>

\* an array of a valid entry and an entry with a negative quantity has been
\* decoded to the valid entry alone, its sku trimmed
C10_Witness ==
    /\ pc[1] = "decoded"
    /\ req[1].items = ItemsJson(Arr(<<Entry(Str(<<" ", "A", " ">>), Num(<<"2">>)),
                                      Entry(Num(<<"7">>), Num(<<"-", "1">>))>>))
    /\ loc[1].items = <<[sku |-> <<"A">>, quantity |-> <<"2">>]>>

\* handler s receives its request
Arrives(s) == pc[s] = "idle" /\ Step(s)

\* the request is answered at once: no store call, no connection, no
\* transaction and no call of the platform is made for it
AnsweredAtOnce(s) ==
    /\ pc'[s] = "done"
    /\ loc'[s] = NoLoc
    /\ lists' = lists /\ items' = items /\ now' = now /\ nextListId' = nextListId
    /\ client' = client /\ calls' = calls

\* a name that is empty once trimmed
BlankName(name) == \A k \in DOMAIN name : name[k] \in WhiteSpace

\* an items field with no valid entry
NoValidItem(v) == ~Decodable(v) \/ SelectSeq(v.v.elems, EntryValid) = <<>>

\* C11: an upsert whose name is empty after trimming is answered 400
\* "Missing name", and one with a name whose items hold no valid entry 400
\* "No valid items provided"; either is answered before a connection is
\* acquired or a transaction opened, and the store stays as it is.
C11_UpsertValidatedFirst ==
    [][\A s \in Slots :
          Arrives(s) /\ req'[s].action = "upsert" =>
            /\ BlankName(req'[s].name) =>
                  AnsweredAtOnce(s) /\ resp'[s] = json(400, Fail("Missing name"))
            /\ ~BlankName(req'[s].name) /\ NoValidItem(req'[s].items) =>
                  /\ AnsweredAtOnce(s)
                  /\ resp'[s] = json(400, Fail("No valid items provided"))]_vars

\* an upsert with a name of spaces and one with no items field have both
\* been answered 400, each with its error, and the store is as it started
C11_Witness ==
    \E s, t \in Slots :
        /\ pc[s] = "done" /\ req[s].action = "upsert"
        /\ req[s].name = <<" ">> /\ ~NoValidItem(req[s].items)
        /\ resp[s] = json(400, Fail("Missing name"))
        /\ pc[t] = "done" /\ req[t].action = "upsert"
        /\ ~BlankName(req[t].name) /\ req[t].items = ItemsAbsent
        /\ resp[t] = json(400, Fail("No valid items provided"))
        /\ lists = {FirstList} /\ items = FirstItems /\ now = 0

\* a delete of list listId by customer c has been answered 200
Deleted(t, c, listId) ==
    /\ pc[t] = "done" /\ req[t].action = "delete" /\ resp[t].status = 200
    /\ Bigint(req[t].customer_id) = c /\ req[t].list_id = listId

\* C18: a delete of a list the caller owns removes the list row and every
\* item of the list and answers 200 with ok:true, and from then on the list
\* and its items stay away and a get, orderify or delete of it by the caller
\* answers 404; a delete that matches no row of the caller answers 404 and
\* leaves the store as it is.
C18_DeleteRemovesList ==
    [][\A s \in Slots :
          LET c == Bigint(req[s].customer_id)
              l == req[s].list_id
              own == {r \in lists : r.id = l /\ r.customer_id = c}
          IN  /\ pc[s] = "delete" /\ Step(s) /\ ~loc'[s].failed =>
                    IF own # {}
                    THEN /\ lists' = lists \ own
                         /\ items' = {i \in items : i.list_id # l}
                         /\ resp'[s] = json(200, [ok |-> TRUE])
                    ELSE /\ lists' = lists /\ items' = items
                         /\ resp'[s] = NotFound
              /\ \A t \in Slots :
                    Deleted(t, Bigint(req[t].customer_id), req[t].list_id) =>
                        /\ \A r \in lists' : r.id # req[t].list_id
                        /\ \A i \in items' : i.list_id # req[t].list_id
                        /\ OwnershipStep(s) /\ c = Bigint(req[t].customer_id)
                              /\ l = req[t].list_id
                           => resp'[s] = NotFound]_vars

\* the owner has deleted the first list, which is gone with its item, and a
\* get of it by the owner has been answered 404
C18_Witness ==
    \E s, t \in Slots :
        /\ Deleted(t, FirstList.customer_id, FirstId)
        /\ pc[s] = "done" /\ req[s].action = "get" /\ resp[s] = NotFound
        /\ Bigint(req[s].customer_id) = FirstList.customer_id /\ req[s].list_id = FirstId
        /\ loc[s].row = {} /\ ~loc[s].failed
        /\ lists = {} /\ items = {}

\* C19: the list action of customer C answers 200 with exactly the lists of
\* C, each once and none of another customer, the most recently updated
\* first, each with its id, name and time of update, with the number of
\* items the store holds for it as item_count, and with items empty.
C19_ListOwnLists ==
    [][\A s \in Slots :
          pc[s] = "list" /\ Step(s) /\ ~loc'[s].failed =>
            LET out == resp'[s].body.lists
                own == {r \in lists : r.customer_id = Bigint(req[s].customer_id)}
            IN  /\ resp'[s].status = 200 /\ resp'[s].body.ok
                /\ Len(out) = Cardinality(own)
                /\ {out[k].id : k \in DOMAIN out} = {r.id : r \in own}
                /\ \A k \in DOMAIN out :
                      /\ \E r \in own : /\ r.id = out[k].id
                                        /\ r.name = out[k].name
                                        /\ r.updated_at = out[k].updated_at
                      /\ out[k].item_count
                            = Cardinality({i \in items : i.list_id = out[k].id})
                      /\ out[k].items = <<>>
                      /\ k < Len(out) => out[k].updated_at >= out[k + 1].updated_at
                /\ lists' = lists /\ items' = items]_vars

\* after an upsert of the owner of the first list has added a list of two
\* items, a list request of that customer has been answered with the new list
\* first and the first list second, each with the number of its items
C19_Witness ==
    \E s \in Slots :
        /\ pc[s] = "done" /\ req[s].action = "list" /\ resp[s].status = 200
        /\ Bigint(req[s].customer_id) = FirstList.customer_id
        /\ Len(resp[s].body.lists) = 2
        /\ resp[s].body.lists[1].id # FirstId
        /\ resp[s].body.lists[1].item_count = 2
        /\ resp[s].body.lists[1].updated_at > resp[s].body.lists[2].updated_at
        /\ resp[s].body.lists[2].id = FirstId
        /\ resp[s].body.lists[2].item_count = 1

\* C20: every item row of the committed store refers to exactly one list
\* row, whatever deletes have run and whatever upserts have committed, been
\* rolled back or are in progress.
C20_ItemsBelongToLists ==
    \A i \in items : Cardinality({r \in lists : r.id = i.list_id}) = 1

\* the first list has been deleted by its owner and an upsert that named it
\* has been rolled back after its item statements; every item left belongs
\* to a list
C20_Witness ==
    \E s, t \in Slots :
        /\ Deleted(t, FirstList.customer_id, FirstId)
        /\ pc[s] = "done" /\ req[s].action = "upsert" /\ req[s].list_id = FirstId
        /\ loc[s].failed /\ loc[s].wrote # "none"
        /\ \A r \in lists : r.id # FirstId
        /\ C20_ItemsBelongToLists

RECURSIVE Concat(_)
\* the texts of a sequence one after the other, with nothing in between
Concat(texts) == IF texts = <<>> THEN <<>> ELSE Head(texts) \o Concat(Tail(texts))

\* the message of the claim: the keys other than signature in ascending
\* order, each as key=value
CanonicalMessage(pairs) ==
    LET keys == QueryKeys(pairs) \ {KSignature}
        asc == CHOOSE ks \in [1..Cardinality(keys) -> keys] :
                   \A i, j \in DOMAIN ks : i < j => LexLess(ks[i], ks[j])
    IN  Concat([n \in DOMAIN asc |-> asc[n] \o <<"=">> \o QueryText(pairs, asc[n])])

\* the signature parameter is the digest of the canonical message
RightlySigned(pairs, key) ==
    /\ KSignature \in QueryKeys(pairs)
    /\ QueryText(pairs, KSignature) = HmacSha256Hex(key, CanonicalMessage(pairs))

\* the same keys, each with the same values in the same order
SameParameters(p, q) ==
    /\ QueryKeys(p) = QueryKeys(q)
    /\ \A k \in QueryKeys(p) : ValuesOf(p, k) = ValuesOf(q, k)

\* C14: with a secret configured, verifyAppProxy lets a request pass exactly
\* when its signature parameter is the hex keyed hash, under the secret, of
\* the message made of all other query parameters, keys ascending, each as
\* key=value, nothing in between, and answers 401 otherwise; requests with
\* the same parameters get the same outcome in whatever order the
\* parameters arrive and however often the check is made.
C14_AcceptsRightSignature ==
    \A s \in Slots :
        pc[s] # "idle" /\ secret # NoSecret =>
            /\ pc[s] = "next" <=> RightlySigned(http[s].query, secret)
            /\ pc[s] # "next" => pc[s] = "done" /\ resp[s].status = 401
            /\ \A t \in Slots :
                  pc[t] # "idle" /\ SameParameters(http[s].query, http[t].query) =>
                      pc[t] = pc[s] /\ resp[t] = resp[s]

\* two requests with the same three parameters and the right signature,
\* arriving in different orders of which one is not the sorted one, have both
\* passed the check
C14_Witness ==
    \E s, t \in Slots :
        /\ secret = AppSecret
        /\ pc[s] = "next" /\ pc[t] = "next"
        /\ Len(http[s].query) = 4
        /\ http[s].query # http[t].query
        /\ SameParameters(http[s].query, http[t].query)
        /\ LexLess(http[s].query[2][1], http[s].query[1][1])
        /\ Cardinality(QueryKeys(http[s].query)) = 4

\* the request has no signature, one of the wrong length, or one of the
\* right length that is not the digest
SignatureOmitted(q) ==
    KSignature \notin QueryKeys(q) \/ QueryText(q, KSignature) = <<>>
SignatureWrongLength(q) ==
    ~SignatureOmitted(q) /\ Len(QueryText(q, KSignature)) # HexLen
SignatureWrongDigest(q, key) ==
    /\ ~SignatureOmitted(q) /\ Len(QueryText(q, KSignature)) = HexLen
    /\ QueryText(q, KSignature) # HmacSha256Hex(key, CanonicalMessage(q))

\* the request is turned away: no handler gets it
NotHandled(s) == AnsweredAtOnce(s) /\ req'[s] = NoReq

\* C12: with the secret configured, a request whose signature is omitted,
\* has the wrong length, or has the right length and is not the digest, is
\* answered 401 at once, whatever its action, method and customer id: no
\* check of the handler runs for it, no store call and no platform call.
C12_BadSignatureIs401 ==
    [][\A s \in Slots :
          /\ Arrives(s) /\ secret # NoSecret
          /\ \/ SignatureOmitted(http'[s].query)
             \/ SignatureWrongLength(http'[s].query)
             \/ SignatureWrongDigest(http'[s].query, secret)
          => /\ resp'[s].status = 401 /\ ~resp'[s].body.ok
             /\ NotHandled(s)]_vars

\* a request with no signature and no customer id and a request with a
\* signature of the right length that names an inherited property as its
\* action have both been answered 401
C12_Witness ==
    \E s, t \in Slots :
        /\ secret = AppSecret
        /\ pc[s] = "done" /\ resp[s].status = 401
        /\ SignatureOmitted(http[s].query)
        /\ KCustomerId \notin QueryKeys(http[s].query) /\ http[s].body = Undef
        /\ pc[t] = "done" /\ resp[t].status = 401
        /\ SignatureWrongDigest(http[t].query, secret)
        /\ Text(ActionOf(http[t])) \in Inherited

\* C13: when no secret is configured every request is refused: none gets to
\* the customer id check, the guard or an action.
C13_FailsClosed ==
    secret = NoSecret =>
        \A s \in Slots :
            pc[s] # "idle" =>
                /\ pc[s] = "done" /\ resp[s].status \in {401, 500}
                /\ req[s] = NoReq

\* the text of the customer id of a request, from the query or else the body
IdText(h) ==
    IF QueryTruthy(h.query, KCustomerId)
    THEN [given |-> TRUE, text |-> QueryText(h.query, KCustomerId)]
    ELSE IF h.body.t \in {"string", "array"}
    THEN [given |-> TRUE, text |-> ToStr(h.body).v]
    ELSE [given |-> FALSE, text |-> <<>>]

\* the customer id is absent, blank, or has between its first and its last
\* character that is no white space a character that is no digit
MissingCustomerId(h) ==
    LET id == IdText(h).text
    IN  \/ ~IdText(h).given
        \/ BlankName(id)
        \/ \E i \in DOMAIN id :
              /\ id[i] \notin Digits
              /\ (\E j \in 1..(i - 1) : id[j] \notin WhiteSpace) \/ id[i] \notin WhiteSpace
              /\ (\E j \in (i + 1)..Len(id) : id[j] \notin WhiteSpace)
                 \/ id[i] \notin WhiteSpace

\* verifyAppProxy lets the request pass
Passes(h) == secret = NoSecret \/ RightlySigned(h.query, secret)

\* C17: a request that passes the verification and whose customer id, from
\* the query or else from the body, is absent, empty after trimming, or has
\* after trimming a character that is no decimal digit, is answered 400
\* "Missing customer_id" at once, whatever its action and method: no action
\* runs for it, no store call and no platform call.
C17_MissingCustomerId ==
    [][\A s \in Slots :
          Arrives(s) /\ Passes(http'[s]) /\ MissingCustomerId(http'[s]) =>
            /\ resp'[s] = json(400, Fail("Missing customer_id"))
            /\ NotHandled(s)]_vars

\* a rightly signed upsert whose customer id has a letter and a rightly
\* signed request with no customer id and an inherited property as its
\* action have both been answered 400 "Missing customer_id"
C17_Witness ==
    \E s, t \in Slots :
        /\ secret = AppSecret
        /\ pc[s] = "done" /\ resp[s] = json(400, Fail("Missing customer_id"))
        /\ RightlySigned(http[s].query, secret)
        /\ IdText(http[s]).text = <<"4", "1", "x">>
        /\ Text(ActionOf(http[s])) = "upsert" /\ http[s].method = "POST"
        /\ pc[t] = "done" /\ resp[t] = resp[s]
        /\ RightlySigned(http[t].query, secret)
        /\ ~IdText(http[t]).given
        /\ Text(ActionOf(http[t])) \in Inherited

\* the one method each action is served under
ActionTable ==
    [list |-> "GET", get |-> "GET", orderify |-> "GET",
     upsert |-> "POST", delete |-> "POST", draftpad |-> "POST"]

\* the action of the request is not in the table, or the method of the
\* request is not the one the table gives for the action
Unsupported(h) ==
    LET action == Text(ActionOf(h))
    IN  \/ action \notin DOMAIN ActionTable
        \/ h.method # ActionTable[action]

\* C15: a rightly signed request with a customer id whose action is not in
\* the table, or whose method is not the one of its action, has been
\* answered 400 and no action has run for it.
C15_UnsupportedIs400 ==
    \A s \in Slots :
        /\ pc[s] # "idle" /\ secret # NoSecret
        /\ RightlySigned(http[s].query, secret)
        /\ ~MissingCustomerId(http[s])
        /\ Unsupported(http[s])
        => /\ pc[s] = "done" /\ resp[s].status = 400
           /\ req[s] = NoReq

\* the positions of the handler of each action
Positions ==
    [list |-> {"list"}, get |-> {"get_list", "get_items"},
     orderify |-> {"orderify_list", "orderify_items"},
     delete |-> {"delete"},
     upsert |-> {"connect", "begin", "list_update", "list_insert",
                 "items_delete", "items_insert", "commit", "rollback"},
     draftpad |-> {"draft_create", "draft_text"}]

\* the text without the white space before its first and after its last
\* character
Trimmed(id) ==
    LET inside == {i \in DOMAIN id : id[i] \notin WhiteSpace}
    IN  IF inside = {} THEN <<>>
        ELSE SubSeq(id, CHOOSE i \in inside : \A j \in inside : i <= j,
                        CHOOSE i \in inside : \A j \in inside : i >= j)

\* the steps of the request in slot s run in the order of the code: the
\* verification, then the customer id, then the guard, then the action
InOrder(s) ==
    Arrives(s) =>
        LET h == http'[s]
        IN  /\ ~Passes(h) => resp'[s].status = 401 /\ NotHandled(s)
            /\ Passes(h) /\ MissingCustomerId(h) =>
                   resp'[s].status = 400 /\ NotHandled(s)
            /\ pc'[s] # "done" =>
                   /\ Passes(h) /\ ~MissingCustomerId(h) /\ ~Unsupported(h)
                   /\ req'[s].action = Text(ActionOf(h))
                   /\ req'[s].customer_id = Trimmed(IdText(h).text)
                   /\ pc'[s] \in Positions[req'[s].action]
                   /\ resp'[s] = NoResp

\* once it has arrived the request keeps its parameters, stays in the
\* handler of its action, and is answered once, at the end
RunsToItsEnd(s) ==
    pc[s] # "idle" =>
        /\ http'[s] = http[s] /\ req'[s] = req[s]
        /\ pc'[s] # "idle"
        /\ pc[s] = "done" => pc'[s] = "done" /\ resp'[s] = resp[s]
        /\ pc[s] # "done" =>
              /\ resp[s] = NoResp
              /\ pc'[s] \in Positions[req[s].action] \cup {"done"}
              /\ (pc'[s] = "done") = (resp'[s] # NoResp)

\* a step of one request leaves the others where they are
OneAtATime ==
    \A s, t \in Slots :
        s # t /\ pc'[s] # pc[s] =>
            /\ pc'[t] = pc[t] /\ req'[t] = req[t]
            /\ resp'[t] = resp[t] /\ http'[t] = http[t]

\* C16: each request is processed on its own and its steps run in the order
\* the code gives them: verification, customer id, guard, then the handler of
\* its action from its first statement to its answer; the request is
\* answered once and nothing of it changes afterwards.
C16_SequentialPerRequest ==
    [][/\ OneAtATime
       /\ \A s \in Slots : InOrder(s) /\ RunsToItsEnd(s)]_vars

\* a rightly signed upsert is in the middle of its transaction after an
\* earlier request was turned away by the guard for its method
C16_Witness ==
    \E s, t \in Slots :
        /\ secret = AppSecret
        /\ pc[s] = "done" /\ resp[s].status = 400
        /\ RightlySigned(http[s].query, secret)
        /\ ~MissingCustomerId(http[s])
        /\ Text(ActionOf(http[s])) \in DOMAIN ActionTable
        /\ http[s].method # ActionTable[Text(ActionOf(http[s]))]
        /\ pc[t] = "items_insert" /\ req[t].action = "upsert"
        /\ RightlySigned(http[t].query, secret)

\* the request in slot s is in flight: it has arrived and is not answered
InFlight(s) == pc[s] \notin {"idle", "done"}

\* the connections handler s holds: those it was given and has not released
Held(s) == client[s].acquired - client[s].released

\* C24: an upsert is given at most one connection, holds it from
\* pool.connect() to the end of its transaction, and has released it exactly
\* once when the request is answered, whether the transaction was committed
\* or rolled back and whether or not ROLLBACK threw; when no request is in
\* flight no connection is held.
C24_ConnectionReleasedOnce ==
    /\ \A s \in Slots :
          /\ client[s].acquired \in {0, 1}
          /\ Held(s) \in {0, 1}
          /\ Held(s) = 1 => InFlight(s) /\ req[s].action = "upsert"
          /\ pc[s] = "done" => client[s].released = client[s].acquired
          /\ pc[s] = "done" /\ req[s].action = "upsert"
               /\ (resp[s].status = 200 \/ client[s].begun = 1)
               => client[s].acquired = 1 /\ client[s].released = 1
    /\ (\A s \in Slots : ~InFlight(s)) => \A s \in Slots : Held(s) = 0

\* one upsert was committed and one was rolled back, and each has released
\* the one connection it was given
C24_Witness ==
    \E s, t \in Slots :
        /\ pc[s] = "done" /\ req[s].action = "upsert" /\ resp[s].status = 200
        /\ client[s] = [acquired |-> 1, begun |-> 1, released |-> 1]
        /\ pc[t] = "done" /\ req[t].action = "upsert" /\ resp[t].status = 500
        /\ loc[t].wrote # "none"
        /\ client[t] = [acquired |-> 1, begun |-> 1, released |-> 1]

\* the cart of a draftpad has an entry: cart_items is the text of an array
\* that is not empty
NonEmptyCart(r) ==
    /\ r.cart_items.k = "json" /\ r.cart_items.v.t = "array"
    /\ r.cart_items.v.elems # <<>>

\* C21: a draftpad whose note is empty once trimmed and whose cart has no
\* entry is answered 400 at once, and no call of the platform is made for it.
C21_EmptyDraftpadIs400 ==
    [][\A s \in Slots :
          /\ Arrives(s) /\ req'[s].action = "draftpad"
          /\ BlankName(req'[s].note) /\ ~NonEmptyCart(req'[s])
          => /\ resp'[s].status = 400 /\ ~resp'[s].body.ok
             /\ AnsweredAtOnce(s) /\ calls'[s] = <<>>]_vars

\* a draftpad with neither note nor cart has been answered 400 with no call
\* made, and a draftpad with a note has called the platform
C21_Witness ==
    \E s, t \in Slots :
        /\ pc[s] = "done" /\ req[s].action = "draftpad"
        /\ req[s].note = <<" ">> /\ req[s].cart_items = ItemsAbsent
        /\ resp[s].status = 400 /\ calls[s] = <<>>
        /\ pc[t] = "done" /\ req[t].action = "draftpad"
        /\ Len(calls[t]) = 1

\* C22: a draftpad with a cart that has an entry and with an empty note is
\* not answered 400: it goes on to the call that creates the draft order
\* (which is made when the platform is configured).
C22_CartAloneIsEnough ==
    \A s \in Slots :
        /\ pc[s] # "idle" /\ req[s].action = "draftpad"
        /\ BlankName(req[s].note) /\ NonEmptyCart(req[s])
        => /\ resp[s].status # 400
           /\ pc[s] = "done" /\ admin => Len(calls[s]) = 1

\* requests r and q differ in their carts only, and only r has an entry
OnlyCartDiffers(r, q) ==
    /\ NonEmptyCart(r) /\ ~NonEmptyCart(q)
    /\ [r EXCEPT !.cart_items = q.cart_items] = q

\* C30: the note sent has a line for each entry of the cart: of two
\* draftpads that differ only in that one has a cart with an entry, the
\* notes sent to the platform differ.
C30_NoteListsTheCart ==
    \A s, t \in Slots :
        /\ calls[s] # <<>> /\ calls[t] # <<>>
        /\ OnlyCartDiffers(req[s], req[t])
        => calls[s][1].input.note # calls[t][1].input.note

\* once a call of handler s has failed, the one step the handler still takes
\* is its last: the answer, after ROLLBACK in a transaction
NoSecondTry(s) ==
    /\ loc[s].failed /\ Step(s) => pc'[s] = "done"
    /\ pc[s] = "done" => client'[s] = client[s] /\ calls'[s] = calls[s]

\* C26: a request is given at most one connection, sends at most one BEGIN
\* and makes at most one call that creates a draft order; no call is made
\* again after a call has failed.
C26_SingleAttempt ==
    [][\A s \in Slots :
          /\ client'[s].acquired <= 1 /\ client'[s].begun <= 1
          /\ Len(calls'[s]) <= 1
          /\ client'[s].begun = 1 => req'[s].action = "upsert"
          /\ calls'[s] # <<>> => req'[s].action = "draftpad"
          /\ NoSecondTry(s)]_vars

\* an upsert whose transaction failed has sent one BEGIN, and a draftpad
\* whose call failed has made one call
C26_Witness ==
    \E s, t \in Slots :
        /\ pc[s] = "done" /\ req[s].action = "upsert" /\ resp[s].status = 500
        /\ loc[s].failed /\ client[s].begun = 1
        /\ pc[t] = "done" /\ req[t].action = "draftpad"
        /\ resp[t].body = Fail("fetch failed") /\ Len(calls[t]) = 1

\* every message of the validation errors that is not empty, joined
AllMessages(userErrors) ==
    JoinText(SelectSeq(userErrors, LAMBDA m : m # ""), " | ")

\* the answer is a rejection that is no server error and names no draft order
BusinessRejection(r) ==
    /\ r.status # 500 /\ ~r.body.ok
    /\ DOMAIN r.body \cap {"draft_order_id", "draft_id"} = {}

\* C23: when the reply of the platform has validation errors the draftpad
\* answers ok:false with every message joined into its error; when it has
\* neither errors nor the id of a draft order the draftpad answers ok:false
\* with "Draft order not created"; neither answer is a 500 and neither has
\* the id of a draft order.
C23_PlatformRejections ==
    \A s \in Slots :
        pc[s] = "done" /\ calls[s] # <<>> /\ calls[s][1].reply.gql = "ok" =>
            LET reply == calls[s][1].reply
            IN  /\ reply.userErrors # <<>> =>
                     /\ BusinessRejection(resp[s])
                     /\ resp[s].body.error = AllMessages(reply.userErrors)
                /\ reply.userErrors = <<>> /\ reply.id = "" =>
                     /\ BusinessRejection(resp[s])
                     /\ resp[s].body.error = "Draft order not created"

\* C25: every request is answered in the end, also when a call of the store
\* or of the platform never settles: the handler suspended at that call is
\* answered with a 500, and nothing of it is committed.
C25_AnsweredDespiteStall ==
    \A s \in Slots :
        /\ InFlight(s) ~> pc[s] = "done"
        /\ pc[s] = "stalled" ~> (pc[s] = "done" /\ resp[s].status = 500)

\* C27: a request in whose handling an exception was thrown (by a store
\* query, by pool.connect() or by ROLLBACK) is answered once, with status 500
\* and a body that has ok:false and the generic error text and nothing else:
\* no detail of the exception.
C27_GenericServerError ==
    \A s \in Slots :
        pc[s] = "done" /\ loc[s].failed =>
            /\ resp[s].status = 500
            /\ resp[s].body = Fail("Server error")

\* C29: the canonical message has, for a key that arrives with several
\* values, all of them joined by commas in their order: with a secret
\* configured a request passes the check of the signature only when its
\* signature is the digest of that message, so a signature made for one
\* request does not pass for a request that differs from it in a value of
\* a key that is not its first.
C29_AllValuesAreSigned ==
    \A s \in Slots :
        pc[s] = "next" /\ secret # NoSecret => RightlySigned(http[s].query, secret)

\* the three steps of an upload, in their order
UploadSteps == <<"stagedUploadsCreate", "upload", "fileCreate">>

\* the exception of a step of an upload, with what the step was given
StepError(call) ==
    IF call.step = "stagedUploadsCreate" THEN Part001_StagedError(call.reply)
    ELSE IF call.step = "upload" THEN Part001_UploadError(call.reply)
    ELSE Part001_FileError(call.reply)

\* the error text the caller is given for an exception: its message, and a
\* fixed text for an exception with no message
Reported(error) == IF error.message = "" THEN "Upload failed" ELSE error.message

\* C28: the steps of an upload are made in the order: ask for a target,
\* send the file to that target, register what was sent; after a step that
\* failed no step is made (the handler only reads the body of the response
\* that failed), and the request is then answered with the error of that
\* step; a first step that fails before it calls the platform is answered
\* with its error and no step is made; an upload answered ok has made all
\* three.
C28_UploadStepsInOrder ==
    \A s \in Slots :
        req[s].action = "upload_po" =>
            LET made == calls[s]
            IN  /\ Len(made) <= 3
                /\ \A i \in DOMAIN made : made[i].step = UploadSteps[i]
                /\ \A i \in DOMAIN made : i < Len(made) => ~StepError(made[i]).thrown
                /\ Len(made) >= 2 =>
                       /\ made[2].input.url = made[1].reply.target.url
                       /\ made[2].input.file.filename = made[1].input.filename
                /\ Len(made) = 3 =>
                       made[3].input.originalSource = made[1].reply.target.resourceUrl
                /\ pc[s] = "done" /\ made # <<>> =>
                       IF StepError(made[Len(made)]).thrown
                       THEN resp[s].body = Fail(Reported(StepError(made[Len(made)])))
                       ELSE Len(made) = 3 /\ resp[s].body.ok
                /\ pc[s] = "done" /\ made = <<>> =>
                       /\ ~resp[s].body.ok
                       /\ req[s].file.given =>
                            /\ ~admin
                            /\ resp[s].body = Fail("Missing SHOPIFY_STORE_DOMAIN or "
                                                   \o "SHOPIFY_ADMIN_ACCESS_TOKEN")
                /\ made # <<>> /\ StepError(made[Len(made)]).thrown =>
                       pc[s] \in {"done", "upload_text"}

\* one upload has ended at its second step, with the error of that step (the
\* status and the first 200 characters of a body of 201) and with no third
\* step, and another has made its three steps and is answered ok
C28_Witness ==
    \E s, t \in Slots :
        /\ req[s].action = "upload_po" /\ pc[s] = "done"
        /\ Len(calls[s]) = 2 /\ calls[s][2].step = "upload"
        /\ Len(calls[s][2].reply.text) = Part001_SliceEnd + 1
        /\ resp[s].body = Fail("Staged upload failed (403): "
                               \o Text([i \in 1..Part001_SliceEnd |-> "x"]))
        /\ req[t].action = "upload_po" /\ pc[t] = "done"
        /\ Len(calls[t]) = 3 /\ resp[t].body.ok

\* C31: in every committed state of the store every list has a name that is
\* not empty and at least one item, and every item has a sku that is not
\* empty and a whole quantity of at least 1.
C31_ListsAreWellFormed ==
    /\ \A r \in lists : r.name # <<>> /\ ItemsOf(items, r.id) # {}
    /\ \A i \in items : i.sku # <<>> /\ i.quantity \in Nat /\ i.quantity >= 1

\* one upsert has been committed through its INSERT and another through its
\* UPDATE, one of them with an items field of which an entry was dropped, and
\* the store holds two lists
C31_Witness ==
    \E s, t \in Slots :
        /\ pc[s] = "done" /\ resp[s].status = 200 /\ loc[s].wrote = "insert"
        /\ pc[t] = "done" /\ resp[t].status = 200 /\ loc[t].wrote = "update"
        /\ req[s].items = ItemsBB
        /\ Cardinality(lists) = 2
        /\ Cardinality(ItemsOf(items, loc[s].listId)) = 2

\* the transactions that have inserted a list row
Inserting(s) == loc[s].wrote = "insert"

\* C32: the customer of a list never changes and the id of a list is never
\* used again: at every moment no two list rows have the same id, no step
\* changes the customer of a row, and a row that appears has an id that no
\* row has had before (the id generated for the one INSERT that made it).
C32_OwnerAndIdAreFixed ==
    /\ [](\A r, q \in lists : r.id = q.id => r = q)
    /\ [](\A s \in Slots :
            Inserting(s) =>
                /\ loc[s].listId # FirstId /\ loc[s].listId < nextListId
                /\ \A t \in Slots \ {s} : Inserting(t) => loc[t].listId # loc[s].listId)
    /\ [][\A q \in lists' :
            \/ \E r \in lists : r.id = q.id /\ r.customer_id = q.customer_id
            \/ /\ \A r \in lists : r.id # q.id
               /\ \E s \in Slots :
                    /\ pc[s] = "commit" /\ pc'[s] = "done" /\ Inserting(s)
                    /\ q.id = loc[s].listId /\ q.customer_id = Bigint(req[s].customer_id)]_vars

\* the first list has been deleted, and an upsert of its customer that named
\* its id has then made a list with another id, the only list of the store
C32_Witness ==
    \E s, t \in Slots :
        /\ pc[t] = "done" /\ req[t].action = "delete" /\ req[t].list_id = FirstId
        /\ resp[t].status = 200
        /\ pc[s] = "done" /\ req[s].action = "upsert" /\ req[s].list_id = FirstId
        /\ Bigint(req[s].customer_id) = FirstList.customer_id
        /\ resp[s].status = 200 /\ Inserting(s)
        /\ lists # {} /\ \A r \in lists : r.id = loc[s].listId /\ r.id # FirstId

\* the items in the body of a get or of an orderify answered 200
ItemsAnswered(s) ==
    IF req[s].action = "get" THEN resp[s].body.list.items ELSE resp[s].body.items

\* C33: whatever upserts and deletes run meanwhile, a get or an orderify
\* answered 200 has at least one item in its answer, and its items are those
\* the list had at one moment from the first query of the request on.
C33_ReadsAreNeverEmpty ==
    \A s \in Slots :
        /\ pc[s] = "done" /\ req[s].action \in {"get", "orderify"}
        /\ resp[s].status = 200
        => /\ ItemsAnswered(s) # <<>>
           /\ \E p \in loc[s].seen : ~p.gone /\ p.items = ItemsAnswered(s)

\* the actions that only read, and no action at all
ReadOnly == {"none", "list", "get", "orderify", "draftpad"}

\* C34: a step of a list, get, orderify or draftpad request, and a step
\* that answers a request with 400, 401 or 404, leaves every list row and
\* every item row as it was; the store changes only in the step that answers
\* 200 to an upsert, which is its commit, or to a delete.
C34_OnlyWritesChangeTheStore ==
    [][/\ \A s \in Slots :
            /\ Step(s)
            /\ \/ req'[s].action \in ReadOnly
               \/ pc'[s] = "done" /\ resp'[s].status \in {400, 401, 404}
            => lists' = lists /\ items' = items
       /\ lists' # lists \/ items' # items =>
            \E s \in Slots :
                /\ Step(s) /\ pc'[s] = "done" /\ resp'[s].status = 200
                /\ req[s].action \in {"upsert", "delete"}]_vars

\* a request with a bad signature has been answered 401 and a delete that
\* named the list of another customer 404, and the store is as it began
C34_Witness ==
    \E s, t \in Slots :
        /\ pc[s] = "done" /\ resp[s].status = 401
        /\ pc[t] = "done" /\ req[t].action = "delete" /\ req[t].list_id = FirstId
        /\ Bigint(req[t].customer_id) # FirstList.customer_id
        /\ resp[t].status = 404
        /\ lists = {FirstList} /\ items = FirstItems

\* the number of lists of customer c
ListCount(ls, c) == Cardinality({r \in ls : r.customer_id = c})

\* the step answers 200 to handler s
Succeeds(s) == Step(s) /\ pc'[s] = "done" /\ resp'[s].status = 200

\* the step changes the number of lists of the customer of s by n, and the
\* number of lists of no other customer
Adds(s, n) ==
    \A c \in {Bigint(x) : x \in Customers} :
        ListCount(lists', c) =
            ListCount(lists, c) + (IF c = Bigint(req[s].customer_id) THEN n ELSE 0)

\* C35: a committed upsert that inserts adds one list to its customer and
\* none to another, so that upserts with the same name and items leave as
\* many lists, with different ids; a committed upsert that updates leaves
\* the number of lists of every customer as it was; a delete answered 200
\* removes one list of its customer.
C35_ListsAreCounted ==
    [][\A s \in Slots :
          Succeeds(s) =>
            /\ req[s].action = "upsert" /\ loc[s].wrote = "insert" =>
                 /\ Adds(s, 1)
                 /\ \A r \in lists : r.id # resp'[s].body.list_id
                 /\ \E r \in lists' : r.id = resp'[s].body.list_id
            /\ req[s].action = "upsert" /\ loc[s].wrote = "update" => Adds(s, 0)
            /\ req[s].action = "delete" => Adds(s, 0 - 1)]_vars

\* two upserts with the same name and items and no list id have been
\* committed, and their customer has two lists more than at the start, under
\* two ids
C35_Witness ==
    \E s, t \in Slots :
        /\ s # t
        /\ pc[s] = "done" /\ resp[s].status = 200 /\ loc[s].wrote = "insert"
        /\ pc[t] = "done" /\ resp[t].status = 200 /\ loc[t].wrote = "insert"
        /\ req[s] = req[t] /\ req[s].list_id = NoId
        /\ resp[s].body.list_id # resp[t].body.list_id
        /\ ListCount(lists, Bigint(req[s].customer_id))
             = ListCount({FirstList}, Bigint(req[s].customer_id)) + 2

\* the fields of a body that carry the result of a request that succeeded
SuccessPayload == {"lists", "list", "list_id", "items", "draft_order_id"}

\* C36: every answer of /proxy has a body with ok; ok is true only with
\* status 200; with status 400, 401, 404 or 500 ok is false and the body has
\* an error text; the body has a field of the result of a request only
\* when ok is true.
C36_ResponseEnvelope ==
    \A s \in Slots :
        pc[s] = "done" =>
            LET body == resp[s].body
            IN  /\ resp[s].status \in {200, 400, 401, 404, 500}
                /\ "ok" \in DOMAIN body /\ body.ok \in BOOLEAN
                /\ body.ok => resp[s].status = 200
                /\ resp[s].status # 200 =>
                     ~body.ok /\ "error" \in DOMAIN body /\ body.error # ""
                /\ DOMAIN body \cap SuccessPayload # {} => body.ok

\* a get has been answered 200 with a list, and a request for a list that is
\* not there 404 with an error
C36_Witness ==
    \E s, t \in Slots :
        /\ pc[s] = "done" /\ resp[s].status = 200 /\ "list" \in DOMAIN resp[s].body
        /\ pc[t] = "done" /\ resp[t].status = 404
        /\ resp[t].body = Fail("List not found")

\* verifyAppProxy has answered request s itself
TurnedAway(s) == pc[s] = "done" /\ resp[s].status = 401

\* the customer_id of the query when the query has one that is not empty,
\* and that of the form body otherwise
CustomerIdGiven(h) ==
    IF KCustomerId \in QueryKeys(h.query) /\ QueryText(h.query, KCustomerId) # <<>>
    THEN QueryText(h.query, KCustomerId)
    ELSE IF h.body.t \in {"string", "array"} THEN ToStr(h.body).v ELSE <<>>

\* C37: what verifyAppProxy does with a request depends on its query
\* parameters and on the secret alone: requests with the same query
\* parameters get the same outcome of it whatever their method and their form
\* body; and the customer id of the request that an action serves is the
\* customer_id of the query when that is not empty and otherwise the
\* customer_id of the body.
C37_QueryDecides ==
    /\ \A s, t \in Slots :
          pc[s] # "idle" /\ pc[t] # "idle" /\ http[s].query = http[t].query =>
              (TurnedAway(s) <=> TurnedAway(t))
    /\ \A s \in Slots :
          req[s].action # "none" =>
              req[s].customer_id = Trim(CustomerIdGiven(http[s]))

\* of two rightly signed requests with the same query parameters and no
\* customer_id among them, the one with no customer_id in its body is
\* answered 400 and the other is served for the customer of its body; and
\* the secret is configured
C37_Witness ==
    \E s, t \in Slots :
        /\ secret = AppSecret
        /\ http[s].query = http[t].query /\ http[s].body # http[t].body
        /\ KCustomerId \notin QueryKeys(http[s].query)
        /\ pc[s] = "done" /\ resp[s] = json(400, Fail("Missing customer_id"))
        /\ req[t].action # "none" /\ req[t].customer_id = <<"4", "2">>

\* the line item that stands for an order with no cart entry to order
PlaceholderItems ==
    <<[title |-> "Order Pad Submission", quantity |-> 1, originalUnitPrice |-> "0.00"]>>

\* C38: every draftOrderCreate sent to the platform has at least one line
\* item; a request none of whose cart entries has a variant id, as every
\* request here, is sent with exactly one line item, of price zero and
\* quantity 1.
C38_HasLineItems ==
    \A s \in Slots :
        \A i \in DOMAIN calls[s] :
            calls[s][i].input.mutation = "draftOrderCreate" =>
                /\ "lineItems" \in DOMAIN calls[s][i].input
                /\ calls[s][i].input.lineItems = PlaceholderItems

====
